---- MODULE Spec2Model ----
(***************************************************************************)
(* Model of the 3d-assets-panning-video-maker: the useVideoCapture hook    *)
(* (src/src/App.tsx:387-709), the DynamicCameraRig (src/unnamed/part_000),  *)
(* the App's handleGenerateVideo (src/unnamed/part_001:284-347) and the    *)
(* browser's event loop they run on (animation frames, timers, tasks).     *)
(*                                                                         *)
(* Time is counted in thirds of a millisecond ("ticks"), so that the frame *)
(* period 1000/30 ms of the capture loop is the whole number 100.          *)
(***************************************************************************)
EXTENDS Integers, Sequences, FiniteSets, TLC

\* ------------------------------------------------------------------ bounds
\* Durations (seconds) a direct caller passes to startRecording: 1..MaxDuration.
MaxDuration == 2
\* Invocations of startRecording whose closures are alive at the same time.
MaxCalls == 2
\* stopRecording invocations awaiting output.cancel() at the same time.
MaxStops == 1
\* How far (in frame periods) the environment lets a capture loop fall behind
\* its ideal schedule before it only delivers fast animation frames.
MaxLag == 1
\* Asset positions handed to a DynamicCameraRig: 0..MaxAssets.
MaxAssets == 5
\* Seconds of the render clock for which a rig on its own is followed.
MaxClock == 30
\* Seconds of the render clock up to which frames after a long pause come.
MaxPause == 230
\* Seconds the render clock may show when the rig mounts: 0..MaxIdle.
MaxIdle == 0
\* Assets the user of the App loads: 0..MaxLoaded.
MaxLoaded == 2
\* Clicks on the App's generate button that run handleGenerateVideo.
MaxRuns == 2

\* ------------------------------------------------------- program constants
fps == 30
NULL == -1

\* x milliseconds in ticks.
Ms(x) == 3 * x

\* Gaps between two animation frames the environment chooses from: a 60 Hz
\* display (1000/60 ms) and a slow frame of 50 ms.
FrameGaps == {Ms(1000) \div 60, Ms(50)}
FastGap == Ms(1000) \div 60

VARIABLES
  phase,           \* event loop: "idle" (between tasks), "due" (time has passed, due
                   \* timers run), "frame" (an animation frame's callbacks run)
  rafQueue,        \* callbacks registered with requestAnimationFrame, in order
  running,         \* callbacks of the animation frame being run
  timers,          \* pending setTimeout callbacks, each with the time left
  isRecordingRef,  \* useVideoCapture: isRecordingRef.current
  outputRef,       \* outputRef.current: NULL or the call that created the Output
  videoSourceRef,  \* videoSourceRef.current
  audioSourceRef,  \* audioSourceRef.current
  audioCleanupRef, \* audioCleanupRef.current: NULL or the call whose cleanup it is
  cap,             \* the live invocations of startRecording
  stops,           \* stopRecording invocations awaiting output.cancel()
  cameraRigRef,    \* App: cameraRigRef.current is set (a DynamicCameraRig is mounted)
  rig,             \* the mounted DynamicCameraRig: its props and its refs
  clock,           \* the render clock's elapsed time (clock.getElapsedTime()), in ticks
  camera,          \* the camera of the scene: the pose last applied to it
  isRecording,     \* App state isRecording
  isVideoMode,     \* App state isVideoMode
  assets,          \* App: assets.length
  enableMusic,     \* App state enableMusic
  committed,       \* the state the App last rendered
  closure,         \* what the current handleGenerateVideo callback closes over
  run              \* the runs of handleGenerateVideo, by click

browserVars == <<phase, rafQueue, running, timers>>
refVars == <<isRecordingRef, outputRef, videoSourceRef, audioSourceRef, audioCleanupRef>>
hookVars == <<isRecordingRef, outputRef, videoSourceRef, audioSourceRef, audioCleanupRef,
              cap, stops>>
rigVars == <<cameraRigRef, rig, clock, camera>>
appVars == <<isRecording, isVideoMode, assets, enableMusic, committed, closure, run>>
vars == <<phase, rafQueue, running, timers, isRecordingRef, outputRef, videoSourceRef,
          audioSourceRef, audioCleanupRef, cap, stops, cameraRigRef, rig, clock, camera,
          isRecording, isVideoMode, assets, enableMusic, committed, closure, run>>

Calls == 1..MaxCalls
Runs == 1..MaxRuns

Max(a, b) == IF a >= b THEN a ELSE b
Min(a, b) == IF a <= b THEN a ELSE b

\* A rational number num/den, den > 0.
Rat(n, d) == [num |-> n, den |-> d]
RatEq(a, b) == a.num * b.den = b.num * a.den
RatLt(a, b) == a.num * b.den < b.num * a.den
RatLe(a, b) == a.num * b.den <= b.num * a.den

\* ------------------------------------------------------------ the browser
\* Callbacks handed to requestAnimationFrame and to setTimeout.
TickCb(c) == [kind |-> "tick", id |-> c]
HgvCb(r) == [kind |-> "hgv", id |-> r]
R3fCb == [kind |-> "r3f", id |-> NULL]
Timer(k, c, t) == [kind |-> k, id |-> c, left |-> t]

TimerDue == \E i \in 1..Len(timers) : timers[i].left <= 0

\* The timer that fires next: the one due first, the earlier set one on a tie.
NextTimer ==
  CHOOSE i \in 1..Len(timers) :
    /\ timers[i].left <= 0
    /\ \A j \in 1..Len(timers) :
         \/ timers[j].left > timers[i].left
         \/ (timers[j].left = timers[i].left /\ j >= i)

RemoveAt(s, i) == SubSeq(s, 1, i - 1) \o SubSeq(s, i + 1, Len(s))

\* ----------------------------------------------------------- useVideoCapture
\* An invocation of startRecording that has not been made. canvas is the size
\* of the canvas element the call is given, original the size locked at the
\* call (originalCanvasWidth, originalCanvasHeight), submitted the size of the
\* canvas at the last videoSource.add, resized whether a tick found another
\* size than the locked one.
NoCall ==
  [pc |-> "none", duration |-> Rat(0, 1), music |-> FALSE, totalFrames |-> Rat(0, 1),
   frameCount |-> 0,
   sinceStart |-> 0, promise |-> "none", error |-> "none", video |-> 0,
   output |-> "none", finalizeCalls |-> 0, cancelCalls |-> 0,
   adds |-> 0, lastTs |-> Rat(0, 1), lastDur |-> Rat(0, 1),
   audio |-> "none", cleanupRuns |-> 0,
   canvas |-> [width |-> 800, height |-> 600],
   original |-> [width |-> 0, height |-> 0],
   submitted |-> [width |-> 0, height |-> 0], resized |-> FALSE]

Inc(n) == Min(n + 1, 2)

\* const totalFrames = duration * fps, for a duration of duration.num /
\* duration.den seconds; and a faulty variant, one frame short.
TotalFramesShort(duration) == Rat(duration.num * fps - duration.den, duration.den)
TotalFrames(duration) == Rat(duration.num * fps, duration.den)

\* const timestampInSeconds = frameCount / fps
Timestamp(frameCount) == Rat(frameCount, fps)

\* const durationInSeconds = 1 / fps
FrameDuration == Rat(1, fps)

\* expectedTime - startTime = frameCount * 1000 / fps, in ticks
ExpectedTime(frameCount) == (frameCount * Ms(1000)) \div fps

\* The promise of call c settles; its closure (totalFrames, frameCount,
\* startTime) is garbage from here on. A resolved promise carries the bytes of
\* the finalized output, of which the model keeps the number of frames.
Settled(k, how, err, frames) ==
  [k EXCEPT !.pc = "settled", !.promise = how, !.error = err, !.video = frames,
            !.totalFrames = Rat(0, 1), !.frameCount = 0, !.sinceStart = 0,
            !.canvas = NoCall.canvas, !.original = NoCall.original,
            !.submitted = NoCall.submitted, !.resized = FALSE]

\* startRecording(canvas, duration, enableMusic), call number c, up to its first
\* await. The Output and the CanvasSource are created; without music the
\* references are stored and output.start() is awaited in the same step.
ContinueStart(c, k) ==
  /\ outputRef' = c
  /\ videoSourceRef' = c
  /\ cap' = [cap EXCEPT ![c] = [k EXCEPT !.pc = "start", !.output = "starting"]]

\* startRecording after its guard: the flag is set; with music the audio stream
\* is awaited first, without it the references are stored at once.
BeginRecording(c, d, m) ==
  /\ isRecordingRef' = TRUE
  /\ IF m
       THEN /\ cap' = [cap EXCEPT ![c] =
                  [NoCall EXCEPT !.pc = "audioLoad", !.duration = d, !.music = m,
                                 !.promise = "pending", !.output = "created",
                                 !.audio = "loading",
                                 !.canvas = cap[c].canvas,
                                 !.original = cap[c].canvas]]
            /\ UNCHANGED <<outputRef, videoSourceRef>>
       ELSE ContinueStart(c, [NoCall EXCEPT !.duration = d, !.music = m,
                                            !.promise = "pending",
                                            !.canvas = cap[c].canvas,
                                            !.original = cap[c].canvas])
  /\ UNCHANGED <<audioSourceRef, audioCleanupRef>>

\* startRecording, and before it a faulty variant without the guard on
\* isRecordingRef.
StartRecordingUnguarded(c, d, m) ==
  /\ cap[c].pc = "none"
  /\ BeginRecording(c, d, m)
StartRecording(c, d, m) ==
  /\ cap[c].pc = "none"
  /\ IF isRecordingRef
       THEN /\ cap' = [cap EXCEPT ![c] = Settled(NoCall, "rejected", "Already recording", 0)]
            /\ UNCHANGED refVars
       ELSE BeginRecording(c, d, m)

\* No invocation is in progress: those made have settled.
AllSettled == \A c \in Calls : cap[c].pc \in {"none", "settled"}

\* A caller other than the App invokes startRecording: while a capture is
\* recorded, or once the promises of the earlier calls have settled and their
\* timers have run.
StartRecordingCall(c, d, m) ==
  /\ phase = "idle"
  /\ isRecordingRef \/ (AllSettled /\ timers = <<>>)
  /\ \A b \in Calls : b < c => cap[b].pc # "none"
  /\ StartRecording(c, d, m)
  /\ UNCHANGED <<browserVars, stops>>

\* createAudioStreamFromFile catches what is thrown in it and returns null, and
\* startRecording goes on without an audio track; before it a faulty variant in
\* which the error reaches startRecording's promise.
AudioFailureThrows(k) ==
  Settled([k EXCEPT !.audio = "failed"], "rejected", "audio failed", 0)
AudioFailure(k) == [k EXCEPT !.audio = "failed"]

\* createAudioStreamFromFile: the awaits of 'loadedmetadata' and of play()
\* settle. On success the 100 ms wait is set; on failure null is returned and
\* startRecording goes on without audio.
AudioLoaded(c, ok) ==
  /\ phase = "idle"
  /\ cap[c].pc = "audioLoad"
  /\ IF ok
       THEN /\ cap' = [cap EXCEPT ![c].pc = "audioWait", ![c].audio = "playing"]
            /\ timers' = Append(timers, Timer("audioWait", c, Ms(100)))
            /\ UNCHANGED refVars
       ELSE /\ ContinueStart(c, AudioFailure(cap[c]))
            /\ timers' = timers
            /\ UNCHANGED <<isRecordingRef, audioSourceRef, audioCleanupRef>>
  /\ UNCHANGED <<phase, rafQueue, running, stops>>

\* await output.start() settles. On success the tick loop is set up and the
\* first captureFrame requested; on failure startRecording's promise rejects.
OutputStartSettle(c, ok) ==
  /\ phase = "idle"
  /\ cap[c].pc = "start"
  /\ IF ok
       THEN /\ cap' = [cap EXCEPT ![c].pc = "loop", ![c].output = "started",
                                  ![c].totalFrames = TotalFrames(cap[c].duration),
                                  ![c].frameCount = 0, ![c].sinceStart = 0]
            /\ rafQueue' = Append(rafQueue, TickCb(c))
       ELSE /\ cap' = [cap EXCEPT ![c] =
                         Settled([cap[c] EXCEPT !.output = "startFailed"],
                                 "rejected", "start failed", 0)]
            /\ rafQueue' = rafQueue
  /\ UNCHANGED <<phase, running, timers, refVars, stops>>

\* finishRecording() called from captureFrame of call c: its guard, and the call
\* of finalize() on the output outputRef refers to.
FinishRecording(c) ==
  IF outputRef = NULL \/ ~isRecordingRef
    THEN cap' = [cap EXCEPT ![c] = Settled(cap[c], "rejected", "No active recording", 0)]
    ELSE cap' = [cap EXCEPT ![c].pc = "finalize",
                            ![outputRef].finalizeCalls = Inc(@)]

\* The try block of captureFrame: a canvas whose size differs from the locked
\* one is forced back, the frame is submitted, the counter advanced and the
\* next tick scheduled, through a timer when the loop is ahead. Before it a
\* faulty variant that submits the canvas as it is.
SubmitFrameUnforced(c) ==
  LET k == cap[c]
      delay == Max(0, ExpectedTime(k.frameCount + 1) - k.sinceStart)
  IN /\ cap' = [cap EXCEPT ![c].adds = @ + 1,
                           ![c].lastTs = Timestamp(k.frameCount),
                           ![c].lastDur = FrameDuration,
                           ![c].frameCount = @ + 1,
                           ![c].submitted = k.canvas]
     /\ IF delay > Ms(10)
          THEN /\ timers' = Append(timers, Timer("tickDelay", c, delay - Ms(10)))
               /\ rafQueue' = rafQueue
          ELSE /\ rafQueue' = Append(rafQueue, TickCb(c))
               /\ timers' = timers
SubmitFrame(c) ==
  LET k == cap[c]
      delay == Max(0, ExpectedTime(k.frameCount + 1) - k.sinceStart)
      forced == IF k.canvas.width # k.original.width \/ k.canvas.height # k.original.height
                  THEN k.original ELSE k.canvas
  IN /\ cap' = [cap EXCEPT ![c].adds = @ + 1,
                           ![c].lastTs = Timestamp(k.frameCount),
                           ![c].lastDur = FrameDuration,
                           ![c].frameCount = @ + 1,
                           ![c].canvas = forced,
                           ![c].resized = @ \/ forced # k.canvas,
                           ![c].submitted = forced]
     /\ IF delay > Ms(10)
          THEN /\ timers' = Append(timers, Timer("tickDelay", c, delay - Ms(10)))
               /\ rafQueue' = rafQueue
          ELSE /\ rafQueue' = Append(rafQueue, TickCb(c))
               /\ timers' = timers

\* captureFrame of call c, run as an animation-frame callback; before it a
\* faulty variant that requests another frame after a failed submission.
CaptureFrameRetries(c, throws) ==
  LET k == cap[c] IN
  IF ~isRecordingRef \/ RatLe(k.totalFrames, Rat(k.frameCount, 1))
    THEN /\ FinishRecording(c)
         /\ UNCHANGED <<rafQueue, timers>>
    ELSE IF throws
      THEN /\ cap' = [cap EXCEPT ![c] = Settled(k, "rejected", "add failed", 0)]
           /\ rafQueue' = Append(rafQueue, TickCb(c))
           /\ UNCHANGED timers
      ELSE SubmitFrame(c)
CaptureFrame(c, throws) ==
  LET k == cap[c] IN
  IF ~isRecordingRef \/ RatLe(k.totalFrames, Rat(k.frameCount, 1))
    THEN /\ FinishRecording(c)
         /\ UNCHANGED <<rafQueue, timers>>
    ELSE IF throws
      THEN /\ cap' = [cap EXCEPT ![c] = Settled(k, "rejected", "add failed", 0)]
           /\ UNCHANGED <<rafQueue, timers>>
      ELSE SubmitFrame(c)

\* finishRecording after await finalize(): the buffer is read through
\* outputRef.current, then the finally block runs.
FinalizeSettle(c, ok) ==
  /\ phase = "idle"
  /\ cap[c].pc = "finalize"
  /\ cap' = [cap EXCEPT ![c] =
       IF ~ok THEN Settled(cap[c], "rejected", "finalize failed", 0)
       ELSE IF outputRef = NULL THEN Settled(cap[c], "rejected", "TypeError", 0)
       ELSE IF cap[outputRef].finalizeCalls = 0
         THEN Settled(cap[c], "rejected", "Failed to get video buffer", 0)
       ELSE Settled(cap[c], "resolved", "none", cap[outputRef].adds)]
  /\ isRecordingRef' = FALSE
  /\ outputRef' = NULL
  /\ videoSourceRef' = NULL
  /\ audioSourceRef' = NULL
  /\ timers' = IF audioCleanupRef # NULL
                 THEN Append(timers, Timer("audioCleanup", NULL, Ms(500)))
                 ELSE timers
  /\ UNCHANGED <<phase, rafQueue, running, audioCleanupRef, stops>>

\* stopRecording up to its await of output.cancel(); when there is no output or
\* no recording it returns at once and changes nothing.
StopRecording ==
  /\ phase = "idle"
  /\ outputRef # NULL /\ isRecordingRef
  /\ stops < MaxStops
  /\ cap' = [cap EXCEPT ![outputRef].cancelCalls = Inc(@)]
  /\ stops' = stops + 1
  /\ UNCHANGED <<browserVars, refVars>>

\* The cleanup function createAudioStreamFromFile returned to call a.
RunCleanup(f, a) == [f EXCEPT ![a].cleanupRuns = Inc(@), ![a].audio = "closed"]

\* stopRecording's finally block, after cancel() has settled.
StopRecordingFinally ==
  /\ phase = "idle"
  /\ stops > 0
  /\ stops' = stops - 1
  /\ cap' = IF audioCleanupRef # NULL THEN RunCleanup(cap, audioCleanupRef) ELSE cap
  /\ audioCleanupRef' = NULL
  /\ isRecordingRef' = FALSE
  /\ outputRef' = NULL
  /\ videoSourceRef' = NULL
  /\ audioSourceRef' = NULL
  /\ UNCHANGED <<browserVars>>

\* ------------------------------------------------------------ event loop
InLoop(c) == cap[c].pc = "loop"

\* A promise of the encoder or of the audio element is awaited; the model lets
\* it settle before the next animation frame.
Awaiting == \E c \in Calls : cap[c].pc \in {"audioLoad", "start", "finalize"}

\* The time left on the timer that is due first.
MinLeft ==
  CHOOSE t \in {timers[i].left : i \in 1..Len(timers)} :
    \A j \in 1..Len(timers) : timers[j].left >= t

\* The times that may pass until the next animation frame that runs a callback
\* or follows a timer: a frame gap while a capture loop runs, a callback is
\* requested or a rig records (a slow one only while a capture loop runs);
\* otherwise the frames up to the next timer change nothing of the program and
\* are passed over in one step.
NeedsFrames ==
  \/ \E c \in Calls : InLoop(c)
  \/ \E i \in 1..Len(rafQueue) : rafQueue[i] # R3fCb
  \/ cameraRigRef /\ rig.isRecordingRef

Gaps ==
  IF NeedsFrames THEN IF \E c \in Calls : InLoop(c) THEN FrameGaps ELSE {FastGap}
  ELSE IF timers # <<>> THEN {MinLeft}
  ELSE {}

\* Time passes until the next animation frame. Slow frames come only until the
\* capture loop is MaxLag frame periods behind its schedule.
AdvanceTime(gap) ==
  /\ phase = "idle"
  /\ ~Awaiting
  /\ gap \in Gaps
  /\ \A c \in Calls :
       InLoop(c) => cap[c].sinceStart + gap - ExpectedTime(cap[c].frameCount + 1)
                      <= MaxLag * ExpectedTime(1)
  /\ phase' = "due"
  /\ timers' = [i \in 1..Len(timers) |-> [timers[i] EXCEPT !.left = @ - gap]]
  /\ cap' = [c \in Calls |->
               IF InLoop(c) THEN [cap[c] EXCEPT !.sinceStart = @ + gap] ELSE cap[c]]
  /\ UNCHANGED <<rafQueue, running, refVars, stops>>

\* setTimeout(() => requestAnimationFrame(captureFrame), delay - 10) fires.
TickDelayFires ==
  /\ phase = "due" /\ TimerDue
  /\ timers[NextTimer].kind = "tickDelay"
  /\ rafQueue' = Append(rafQueue, TickCb(timers[NextTimer].id))
  /\ timers' = RemoveAt(timers, NextTimer)
  /\ UNCHANGED <<phase, running, hookVars>>

\* const stopTimeout = (duration + 1) * 1000, in ticks; setTimeout takes the
\* whole milliseconds of it.
StopTimeout(duration) == Ms(((duration.num + duration.den) * 1000) \div duration.den)

\* createAudioStreamFromFile after its 100 ms wait: with an audio track the
\* stop timer is set and {audioSource, cleanup} returned, startRecording adds
\* the track and stores the references; without one, null is returned.
AudioWaitFires(track) ==
  /\ phase = "due" /\ TimerDue
  /\ timers[NextTimer].kind = "audioWait"
  /\ LET c == timers[NextTimer].id
         rest == RemoveAt(timers, NextTimer)
     IN IF track
          THEN /\ timers' = Append(rest, Timer("audioPause", c, StopTimeout(cap[c].duration)))
               /\ audioSourceRef' = c
               /\ audioCleanupRef' = c
               /\ ContinueStart(c, cap[c])
          ELSE /\ timers' = rest
               /\ ContinueStart(c, AudioFailure(cap[c]))
               /\ UNCHANGED <<audioSourceRef, audioCleanupRef>>
  /\ UNCHANGED <<phase, rafQueue, running, isRecordingRef, stops>>

\* The stop timer of createAudioStreamFromFile: audioElement.pause().
AudioPauseFires ==
  /\ phase = "due" /\ TimerDue
  /\ timers[NextTimer].kind = "audioPause"
  /\ LET c == timers[NextTimer].id
     IN cap' = [cap EXCEPT ![c].audio = IF @ = "playing" THEN "paused" ELSE @]
  /\ timers' = RemoveAt(timers, NextTimer)
  /\ UNCHANGED <<phase, rafQueue, running, refVars, stops>>

\* The delayed audio cleanup set by finishRecording's finally block.
AudioCleanupFires ==
  /\ phase = "due" /\ TimerDue
  /\ timers[NextTimer].kind = "audioCleanup"
  /\ cap' = IF audioCleanupRef # NULL THEN RunCleanup(cap, audioCleanupRef) ELSE cap
  /\ audioCleanupRef' = NULL
  /\ timers' = RemoveAt(timers, NextTimer)
  /\ UNCHANGED <<phase, rafQueue, running, isRecordingRef, outputRef, videoSourceRef,
                 audioSourceRef, stops>>

\* The animation frame begins: the callbacks registered so far are its callbacks.
FrameBegin ==
  /\ phase = "due" /\ ~TimerDue
  /\ running' = rafQueue
  /\ rafQueue' = <<>>
  /\ phase' = IF rafQueue = <<>> THEN "idle" ELSE "frame"
  /\ UNCHANGED <<timers, hookVars>>

PopRunning ==
  /\ running' = Tail(running)
  /\ phase' = IF Tail(running) = <<>> THEN "idle" ELSE "frame"

\* The next callback of the frame is a captureFrame.
RunCaptureFrame(throws) ==
  /\ phase = "frame"
  /\ Head(running).kind = "tick"
  /\ CaptureFrame(Head(running).id, throws)
  /\ PopRunning
  /\ UNCHANGED <<refVars, stops>>

\* --------------------------------------------------------- DynamicCameraRig
\* x seconds in ticks.
Sec(x) == Ms(1000 * x)

RECURSIVE GCD(_, _)
GCD(a, b) == IF b = 0 THEN a ELSE GCD(b, a % b)

\* The rational n/d (n >= 0, d > 0) in lowest terms.
Reduced(n, d) == LET g == GCD(n, d) IN Rat(n \div g, d \div g)

\* Points of the scene are kept as the expressions the code builds them from:
\* the start position handed down by the App, the centre of the assets, an
\* asset, a point of an orbit around the centre (about = 0) or around an asset,
\* and such a point blended with the start position by lerpVectors.
Point(at, about, step) == [at |-> at, about |-> about, step |-> step]
StartPoint == Point("startPosition", 0, 0)
Centre == Point("center", 0, 0)
AssetPoint(i) == Point("asset", i, 0)
FirstPoint(hasStart, planned) ==
  IF hasStart THEN StartPoint ELSE planned
BlendedPoint(hasStart, planned) ==
  IF hasStart THEN Point("startBlend", planned.about, planned.step) ELSE planned

\* A point given by its coordinates: new THREE.Vector3(x, y, z).
Vector3(x, y, z) == [x |-> x, y |-> y, z |-> z]

Keyframe(t, position, lookAt, fov) ==
  [time |-> t, position |-> position, lookAt |-> lookAt, fov |-> fov]

\* The duration prop the App gives the rig, and the prop's default.
RigDuration == 20

\* generateSingleAssetAnimation(assetPos, baseAngle); the random base angle and
\* the direction it selects stay symbolic in the points of the orbit.
GenerateSingleAssetAnimation(hasStart) ==
  << Keyframe(Sec(0), FirstPoint(hasStart, Point("orbit", 1, 0)), AssetPoint(1), 50),
     Keyframe(Sec(3), BlendedPoint(hasStart, Point("orbit", 1, 1)), AssetPoint(1), 45),
     Keyframe(Sec(6), Point("orbit", 1, 2), AssetPoint(1), 40),
     Keyframe(Sec(9), Point("orbit", 1, 3), AssetPoint(1), 35),
     Keyframe(Sec(12), Point("orbit", 1, 4), AssetPoint(1), 30),
     Keyframe(Sec(15), Point("orbit", 1, 5), AssetPoint(1), 40),
     Keyframe(Sec(18), Point("orbit", 1, 6), AssetPoint(1), 50),
     Keyframe(Sec(20), Point("orbit", 1, 7), AssetPoint(1), 55) >>

\* The random base angle as movementVariation = (baseAngle % 2 pi) / (2 pi), in
\* twentieths of a turn.
SeedTurns == 0..19

\* The orbit point of keyframe step + 1 of generateSingleAssetAnimation for the
\* seed v: its distance from the asset in the ground plane (the factor of sin
\* and cos) and its height above the asset, in twentieths of a unit.
\* heightPattern is 0.5 when movementVariation > 0.5 and -0.5 otherwise.
OrbitOffset(step, v) ==
  LET heightPattern == IF 2 * v > 20 THEN 10 ELSE -10
  IN CASE step = 0 -> [radius |-> 60, height |-> 40]
       [] step = 1 -> [radius |-> 60, height |-> 40 + heightPattern]
       [] step = 2 -> [radius |-> 50, height |-> 30 + heightPattern \div 2]
       [] step = 3 -> [radius |-> 40, height |-> 24]
       [] step = 4 -> [radius |-> 36, height |-> 16]
       [] step = 5 -> [radius |-> 50, height |-> 30]
       [] step = 6 -> [radius |-> 80, height |-> 50]
       [] step = 7 -> [radius |-> 90, height |-> 50]

minSecondsPerAsset == 4
introDuration == 6

\* const dynamicDuration = Math.max(20, introDuration + assets.length * minSecondsPerAsset);
\* and a faulty variant without the floor of 20.
DynamicDurationUnfloored(n) == introDuration + n * minSecondsPerAsset
DynamicDuration(n) == Max(20, introDuration + n * minSecondsPerAsset)

\* timePerAsset = tourDuration / assets.length, in ticks; the quotient is a
\* whole number of ticks for every n >= 1 (14 s for two assets, 14/3 s for
\* three, 4 s from four assets on). The code computes the times in IEEE
\* doubles, which differ from the exact values only for three assets: there
\* the end of the second asset's slice (15.333333333333336) and the start of
\* the third's (15.333333333333334) are two doubles, where the exact times are
\* equal. Before it a faulty variant that gives every asset the minimum of
\* four seconds.
TimePerAssetMinimum(n) == Sec(minSecondsPerAsset)
TimePerAsset(n) == Sec(DynamicDuration(n) - introDuration) \div n

\* The keyframes pushed for the asset at index - 1 of n: approach, close-up and,
\* unless it is the last asset, the transition to the next.
TourKeyframes(index, n) ==
  LET startTime == Sec(introDuration) + (index - 1) * TimePerAsset(n)
      midTime == startTime + TimePerAsset(n) \div 2
      endTime == startTime + TimePerAsset(n)
  IN << Keyframe(startTime, Point("approach", index, 0), AssetPoint(index), 40),
        Keyframe(midTime, Point("closeUp", index, 0), AssetPoint(index), 35) >>
     \o IF index < n
          THEN << Keyframe(endTime, Point("transition", index, 0), AssetPoint(index + 1), 45) >>
          ELSE << >>

RECURSIVE Tour(_, _)
Tour(index, n) == IF index > n THEN << >> ELSE TourKeyframes(index, n) \o Tour(index + 1, n)

\* The final zoom-out keyframe, at the dynamic duration; and a faulty variant
\* at 20 s.
FinalKeyframeAtTwenty(n) == Keyframe(Sec(20), Point("final", 0, 0), Centre, 60)
FinalKeyframe(n) == Keyframe(Sec(DynamicDuration(n)), Point("final", 0, 0), Centre, 60)

\* movements.sort((a, b) => a.time - b.time): a stable sort by time.
RECURSIVE InsertByTime(_, _)
InsertByTime(sorted, k) ==
  IF sorted = << >> THEN << k >>
  ELSE IF sorted[Len(sorted)].time <= k.time THEN Append(sorted, k)
  ELSE Append(InsertByTime(SubSeq(sorted, 1, Len(sorted) - 1), k), sorted[Len(sorted)])

RECURSIVE SortByTime(_)
SortByTime(movements) ==
  IF movements = << >> THEN << >>
  ELSE InsertByTime(SortByTime(SubSeq(movements, 1, Len(movements) - 1)),
                    movements[Len(movements)])

\* generateMultiAssetAnimation(center, assets, baseAngle) for n assets.
GenerateMultiAssetAnimation(n, hasStart) ==
  LET movements ==
        << Keyframe(Sec(0), FirstPoint(hasStart, Point("orbit", 0, 0)), Centre, 50),
           Keyframe(Sec(2), BlendedPoint(hasStart, Point("orbit", 0, 0)), Centre, 45),
           Keyframe(Sec(4), Point("orbit", 0, 1), Centre, 40),
           Keyframe(Sec(6), Point("orbit", 0, 2), Centre, 45) >>
        \o Tour(1, n) \o << FinalKeyframe(n) >>
  IN [keyframes |-> SortByTime(movements), dynamicDuration |-> DynamicDuration(n)]

\* generateRandomKeyframes() of a rig with n asset positions.
GenerateRandomKeyframes(n, hasStart) ==
  IF n = 1
    THEN [keyframes |-> GenerateSingleAssetAnimation(hasStart),
          dynamicDuration |-> RigDuration]
    ELSE GenerateMultiAssetAnimation(n, hasStart)

\* A blend lerp(from, to, eased(t)) of two points or of two fields of view,
\* kept with the easing curve and the blend factor t it is taken at.
Blend(from, to, ease, t) == [from |-> from, to |-> to, ease |-> ease, t |-> t]
Still(v) == Blend(v, v, "none", Rat(0, 1))
Pose(position, lookAt, fov) == [position |-> position, lookAt |-> lookAt, fov |-> fov]
\* The pose of a keyframe, as the first two returns of interpolateKeyframes
\* give it; and before it a faulty variant that returns the default field of
\* view instead of the keyframe's.
PoseOfDefaultFov(k) == Pose(Still(k.position), Still(k.lookAt), Still(50))
PoseOf(k) == Pose(Still(k.position), Still(k.lookAt), Still(k.fov))

\* The pose interpolateKeyframes returns without keyframes, which is also the
\* pose resetAnimation gives the camera.
DefaultPose == Pose(Still(Vector3(0, 2, 5)), Still(Vector3(0, 0, 0)), Still(50))

\* The easing curves: t * t * (3 - 2 t) while recording, and
\* t * t * t * (t * (t * 6 - 15) + 10) in preview. Before each a faulty
\* variant: t * t, and t * t * t.
HermiteSquare(t) == Reduced(t.num * t.num, t.den * t.den)
Hermite(t) == Reduced(t.num * t.num * (3 * t.den - 2 * t.num), t.den * t.den * t.den)
QuinticCube(t) == Reduced(t.num * t.num * t.num, t.den * t.den * t.den)
Quintic(t) ==
  Reduced(t.num * t.num * t.num *
            (6 * t.num * t.num - 15 * t.num * t.den + 10 * t.den * t.den),
          t.den * t.den * t.den * t.den * t.den)

\* const fov = THREE.MathUtils.lerp(beforeFrame.fov || 50, afterFrame.fov || 50, easedT);
\* every keyframe of the model has a fov other than 0. Before it a faulty
\* variant that blends by the raw factor t.
FovBlendRaw(beforeFrame, afterFrame, ease, t) ==
  Blend(beforeFrame.fov, afterFrame.fov, "lerp", t)
FovBlend(beforeFrame, afterFrame, ease, t) ==
  Blend(beforeFrame.fov, afterFrame.fov, ease, t)

\* interpolateKeyframes(currentTime) of rig r, currentTime in ticks.
InterpolateKeyframes(r, currentTime) ==
  LET keyframes == r.keyframesRef
      last == Len(keyframes)
      clampedTime == Max(0, Min(currentTime, Sec(r.dynamicDurationRef)))
  IN IF last = 0 THEN DefaultPose
     ELSE IF clampedTime <= keyframes[1].time THEN PoseOf(keyframes[1])
     ELSE IF clampedTime >= keyframes[last].time THEN PoseOf(keyframes[last])
     ELSE
       LET i == CHOOSE i \in 1..(last - 1) :
                  /\ clampedTime >= keyframes[i].time /\ clampedTime <= keyframes[i + 1].time
                  /\ \A j \in 1..(i - 1) :
                       ~(clampedTime >= keyframes[j].time /\ clampedTime <= keyframes[j + 1].time)
           beforeFrame == keyframes[i]
           afterFrame == keyframes[i + 1]
           timeDiff == afterFrame.time - beforeFrame.time
           t == IF timeDiff > 0 THEN Reduced(clampedTime - beforeFrame.time, timeDiff)
                ELSE Rat(0, 1)
           ease == IF r.isRecordingRef THEN "hermite" ELSE "quintic"
       IN Pose(Blend(beforeFrame.position, afterFrame.position, ease, t),
               Blend(beforeFrame.lookAt, afterFrame.lookAt, ease, t),
               FovBlend(beforeFrame, afterFrame, ease, t))

\* The value of the easing curve a blend is taken with, at blend factor t.
Eased(ease, t) ==
  CASE ease = "hermite" -> Hermite(t)
    [] ease = "quintic" -> Quintic(t)
    [] ease = "lerp" -> t
    [] OTHER -> Rat(0, 1)

\* THREE.MathUtils.lerp(from, to, e) of two numbers, and lerpVectors of two
\* vectors: from + (to - from) * e, as rationals.
Lerp(from, to, e) == Rat(from * e.den + (to - from) * e.num, e.den)
LerpVectors(from, to, e) ==
  Vector3(Lerp(from.x, to.x, e), Lerp(from.y, to.y, e), Lerp(from.z, to.z, e))

\* The vector and the number a blend of numeric endpoints evaluates to.
VectorOf(b) == LerpVectors(b.from, b.to, Eased(b.ease, b.t))
NumberOf(b) == Lerp(b.from, b.to, Eased(b.ease, b.t))

\* No rig is mounted.
NoRig ==
  [assetsPositions |-> 0, startPosition |-> FALSE, isRecordingRef |-> FALSE,
   animationStartTimeRef |-> NULL, keyframesRef |-> << >>, dynamicDurationRef |-> 0]

\* A rig as it mounts, with n asset positions and, if hasStart, a start position.
MountedRig(n, hasStart) ==
  [NoRig EXCEPT !.assetsPositions = n, !.startPosition = hasStart,
                !.dynamicDurationRef = RigDuration]

\* The camera while no rig has touched it: where the orbit controls left it.
\* time is the time handed to interpolateKeyframes for the pose, fresh whether a
\* rig tick has applied a pose since the canvas was last captured.
FreeCamera ==
  [pose |-> Pose(Still(Point("controls", 0, 0)), Still(Point("controls", 0, 0)), Still(50)),
   time |-> NULL, fresh |-> FALSE]

\* The handle of the rig: startRecordingAnimation().
StartRecordingAnimation(r) ==
  LET result == GenerateRandomKeyframes(r.assetsPositions, r.startPosition)
  IN [r EXCEPT !.isRecordingRef = TRUE, !.animationStartTimeRef = NULL,
               !.keyframesRef = result.keyframes,
               !.dynamicDurationRef = result.dynamicDuration]

\* stopRecordingAnimation(); before it a faulty variant that also sets the
\* dynamic duration back to the default.
StopRecordingAnimationAndReset(r) ==
  [r EXCEPT !.isRecordingRef = FALSE, !.animationStartTimeRef = NULL,
            !.dynamicDurationRef = RigDuration]
StopRecordingAnimation(r) ==
  [r EXCEPT !.isRecordingRef = FALSE, !.animationStartTimeRef = NULL]

\* resetAnimation(): the refs, and the camera put back to its default pose;
\* before it a faulty variant that leaves the keyframes.
ResetAnimationKeepsPath(r) ==
  [r EXCEPT !.isRecordingRef = FALSE, !.animationStartTimeRef = NULL,
            !.dynamicDurationRef = RigDuration]
ResetAnimation(r) ==
  [r EXCEPT !.isRecordingRef = FALSE, !.animationStartTimeRef = NULL,
            !.keyframesRef = << >>, !.dynamicDurationRef = RigDuration]
ResetCamera == [pose |-> DefaultPose, time |-> NULL, fresh |-> FALSE]

\* getDynamicDuration().
GetDynamicDuration(r) == r.dynamicDurationRef

\* The rig's useFrame callback at render-clock time now: the rig after it. The
\* first tick of a recording latches the clock as the origin of the animation.
\* Before it a faulty variant that latches the clock on every tick.
UseFrameRigRelatches(r, now) ==
  IF r.isRecordingRef
    THEN [r EXCEPT !.animationStartTimeRef = now]
    ELSE r
UseFrameRig(r, now) ==
  IF r.isRecordingRef /\ r.animationStartTimeRef = NULL
    THEN [r EXCEPT !.animationStartTimeRef = now]
    ELSE r

\* The time useFrame hands to interpolateKeyframes; before it a faulty variant
\* that takes the preview time modulo the duration prop.
CurrentTimeByProp(r, now) ==
  IF r.isRecordingRef
    THEN now - UseFrameRig(r, now).animationStartTimeRef
    ELSE (now \div 10) % Sec(RigDuration)
CurrentTime(r, now) ==
  IF r.isRecordingRef
    THEN now - UseFrameRig(r, now).animationStartTimeRef
    ELSE (now \div 10) % Sec(r.dynamicDurationRef)

\* The camera after the rig's useFrame callback: the pose is copied while
\* recording; in preview the camera moves a twentieth of the way to it and its
\* field of view a fiftieth, from where they are.
UseFrameCamera(r, now) ==
  LET target == InterpolateKeyframes(r, CurrentTime(r, now))
  IN IF r.isRecordingRef
       THEN [pose |-> target, time |-> CurrentTime(r, now), fresh |-> TRUE]
       ELSE [pose |-> Pose(Blend(Point("camera", 0, 0), target.position, "lerp", Rat(1, 20)),
                           target.lookAt,
                           Blend(Point("camera", 0, 0), target.fov, "lerp", Rat(1, 50))),
             time |-> CurrentTime(r, now), fresh |-> TRUE]

\* Gaps between the frames of a rig that is followed on its own.
RigFrameGaps == {Ms(500), Ms(1500)}

\* ------------------------------------------------------------------- App
\* A click that has not happened, and a run of handleGenerateVideo that is over.
NoRun == [pc |-> "none", call |-> NULL, dynamicDuration |-> 0, music |-> FALSE]
DoneRun == [NoRun EXCEPT !.pc = "done"]

\* The state of the App as it would render now.
Current ==
  [isRecording |-> isRecording, isVideoMode |-> isVideoMode, assets |-> assets,
   enableMusic |-> enableMusic]

\* handleGenerateVideo as useCallback makes it from the state s.
Closure(s) ==
  [isRecording |-> s.isRecording, assetsLength |-> s.assets, enableMusic |-> s.enableMusic]

\* The render clock values a mounting rig may find.
ClockAtMount == {Sec(i) : i \in 0..MaxIdle}

\* React renders the App with its current state. handleGenerateVideo is made
\* anew when isRecording or assets.length differ from those it closes over; the
\* DynamicCameraRig is rendered in video mode only, so it unmounts when the mode
\* is left and the orbit controls take the camera; a mounted rig gets the
\* current asset positions.
Commit ==
  /\ committed # Current
  /\ committed' = Current
  /\ closure' = IF closure.isRecording # isRecording \/ closure.assetsLength # assets
                  THEN Closure(Current) ELSE closure
  /\ IF ~isVideoMode
       THEN /\ cameraRigRef' = FALSE
            /\ rig' = NoRig
            /\ clock' = 0
            /\ camera' = IF cameraRigRef THEN FreeCamera ELSE camera
       ELSE /\ rig' = IF cameraRigRef THEN [rig EXCEPT !.assetsPositions = assets] ELSE rig
            /\ UNCHANGED <<cameraRigRef, clock, camera>>
  /\ UNCHANGED <<browserVars, hookVars, isRecording, isVideoMode, assets, enableMusic, run>>

\* A run of handleGenerateVideo waits for the rig: for its first animation frame
\* or for its retry timer.
WaitsForRig == \E r \in Runs : run[r].pc \in {"raf1", "retry"}

\* The renderer mounts the DynamicCameraRig of the committed video mode and
\* attaches cameraRigRef, some time after the commit: before the first frame
\* the run waits for, during its retry wait, or not before the run has given up
\* waiting.
MountRig(now) ==
  /\ phase = "idle"
  /\ committed.isVideoMode /\ committed = Current
  /\ ~cameraRigRef
  /\ WaitsForRig
  /\ cameraRigRef' = TRUE
  /\ rig' = MountedRig(committed.assets, TRUE)
  /\ clock' = now
  /\ UNCHANGED <<camera, browserVars, hookVars, appVars>>

\* The user adds or removes an asset or toggles the music while nothing is
\* generated, and acts only when no timer of an earlier generation is left.
Idle == ~isRecording /\ committed = Current /\ phase = "idle" /\ timers = <<>>

AddAsset ==
  /\ Idle
  /\ assets < MaxLoaded
  /\ assets' = assets + 1
  /\ UNCHANGED <<browserVars, hookVars, rigVars, isRecording, isVideoMode, enableMusic,
                 committed, closure, run>>

RemoveAsset ==
  /\ Idle
  /\ assets > 0
  /\ assets' = assets - 1
  /\ UNCHANGED <<browserVars, hookVars, rigVars, isRecording, isVideoMode, enableMusic,
                 committed, closure, run>>

ToggleMusic ==
  /\ Idle
  /\ enableMusic' = ~enableMusic
  /\ UNCHANGED <<browserVars, hookVars, rigVars, isRecording, isVideoMode, assets,
                 committed, closure, run>>

\* The seconds the generate button shows for n >= 1 assets:
\* assets.length === 1 ? '(20s)' : `(${6 + assets.length * 4}s)`.
GenerateButtonSeconds(n) == IF n = 1 THEN 20 ELSE 6 + n * 4

\* The call slot the next invocation of startRecording takes.
FreeCall == CHOOSE c \in Calls : cap[c].pc = "none" /\ \A b \in Calls : b < c => cap[b].pc # "none"

\* A click on the enabled generate button: handleGenerateVideo of click r up to
\* its first await. Its guard reads the isRecording and assets.length it closes
\* over. React renders the state a handler sets before it dispatches the next
\* event, so a click finds the button of the current state.
HandleGenerateVideo(r) ==
  /\ phase = "idle"
  /\ committed = Current
  /\ timers = <<>>
  /\ run[r].pc = "none"
  /\ \A b \in Runs : b < r => run[b].pc # "none"
  /\ ~committed.isRecording /\ committed.assets # 0
  /\ ~closure.isRecording /\ closure.assetsLength # 0
  /\ isRecording' = TRUE
  /\ isVideoMode' = TRUE
  /\ run' = [run EXCEPT ![r] = [NoRun EXCEPT !.pc = "raf1", !.music = closure.enableMusic]]
  /\ rafQueue' = Append(rafQueue, HgvCb(r))
  /\ UNCHANGED <<phase, running, timers, hookVars, rigVars, assets, enableMusic,
                 committed, closure>>

\* await startRecording(canvasRef.current, dynamicDuration, enableMusic).
CallStartRecording(r, d) ==
  /\ \E c \in Calls : cap[c].pc = "none"
  /\ StartRecording(FreeCall, Rat(d, 1), run[r].music)
  /\ run' = [run EXCEPT ![r].pc = "capture", ![r].call = FreeCall, ![r].dynamicDuration = d]

\* handleGenerateVideo of run r where it checks cameraRigRef: with a rig it
\* starts the animation and reads the dynamic duration; without one it sets the
\* retry timer, and after the retry goes on with the default of 20 seconds.
CheckRig(r, retried) ==
  IF cameraRigRef
    THEN /\ rig' = StartRecordingAnimation(rig)
         /\ CallStartRecording(r, GetDynamicDuration(rig'))
         /\ UNCHANGED timers
    ELSE IF ~retried
      THEN /\ timers' = Append(timers, Timer("hgvRetry", r, Ms(100)))
           /\ run' = [run EXCEPT ![r].pc = "retry"]
           /\ UNCHANGED <<rig, refVars, cap>>
      ELSE /\ CallStartRecording(r, 20)
           /\ UNCHANGED <<rig, timers>>

\* An animation frame resolves the promise run r awaits: the first two of its
\* three frames request the next, the third goes on to the rig.
RunHgvFrame ==
  /\ phase = "frame"
  /\ Head(running).kind = "hgv"
  /\ LET r == Head(running).id
     IN IF run[r].pc \in {"raf1", "raf2"}
          THEN /\ run' = [run EXCEPT ![r].pc = IF @ = "raf1" THEN "raf2" ELSE "raf3"]
               /\ rafQueue' = Append(rafQueue, HgvCb(r))
               /\ UNCHANGED <<timers, rig, refVars, cap>>
          ELSE /\ CheckRig(r, FALSE)
               /\ UNCHANGED rafQueue
  /\ PopRunning
  /\ UNCHANGED <<stops, cameraRigRef, clock, camera, isRecording, isVideoMode, assets,
                 enableMusic, committed, closure>>

\* The retry timer of handleGenerateVideo fires.
HgvRetryFires ==
  /\ phase = "due" /\ TimerDue
  /\ timers[NextTimer].kind = "hgvRetry"
  /\ LET r == timers[NextTimer].id
     IN IF cameraRigRef
          THEN /\ rig' = StartRecordingAnimation(rig)
               /\ CallStartRecording(r, GetDynamicDuration(rig'))
          ELSE /\ CallStartRecording(r, 20)
               /\ UNCHANGED rig
  /\ timers' = RemoveAt(timers, NextTimer)
  /\ UNCHANGED <<phase, rafQueue, running, stops, cameraRigRef, clock, camera, isRecording,
                 isVideoMode, assets, enableMusic, committed, closure>>

\* The promise of startRecording that run r awaits has settled: the run stops
\* the animation and downloads the video, or alerts the error, and in its
\* finally block leaves recording and video mode and resets the rig.
HgvSettles(r) == run[r].pc = "capture" /\ cap[run[r].call].pc = "settled"

HgvSettled(r) ==
  /\ HgvSettles(r)
  /\ isRecording' = FALSE
  /\ isVideoMode' = FALSE
  /\ rig' = IF cameraRigRef THEN ResetAnimation(StopRecordingAnimation(rig)) ELSE rig
  /\ camera' = IF cameraRigRef THEN ResetCamera ELSE camera
  /\ run' = [run EXCEPT ![r] = DoneRun]
  /\ UNCHANGED <<browserVars, hookVars, cameraRigRef, clock, assets, enableMusic,
                 committed, closure>>

NoContinuation == \A r \in Runs : ~HgvSettles(r)

\* The render loop's animation-frame callback: it requests the next frame and
\* runs the useFrame callback of a mounted rig.
RunR3f ==
  /\ phase = "frame"
  /\ Head(running) = R3fCb
  /\ rafQueue' = Append(rafQueue, R3fCb)
  /\ rig' = IF cameraRigRef THEN UseFrameRig(rig, clock) ELSE rig
  /\ camera' = IF cameraRigRef THEN UseFrameCamera(rig, clock) ELSE camera
  /\ PopRunning
  /\ UNCHANGED <<timers, hookVars, cameraRigRef, clock, appVars>>

\* captureFrame in the App: the frame it submits shows the canvas as the camera
\* stands.
RunCaptureFrameApp(throws) ==
  /\ RunCaptureFrame(throws)
  /\ camera' = IF \E c \in Calls : cap'[c].adds > cap[c].adds
                 THEN [camera EXCEPT !.fresh = FALSE] ELSE camera
  /\ UNCHANGED <<cameraRigRef, rig, clock, appVars>>

\* Time passes in the App: not before React has committed the state, and the
\* render clock of a mounted rig goes along. The App is followed on a display
\* that renders every frame in time.
AdvanceTimeApp(gap) ==
  /\ committed = Current
  /\ NeedsFrames => gap = FastGap
  /\ AdvanceTime(gap)
  /\ clock' = IF cameraRigRef THEN clock + gap ELSE clock
  /\ UNCHANGED <<cameraRigRef, rig, camera, appVars>>

\* ------------------------------------------------- a rig followed on its own
\* The owner of the rig calls startRecordingAnimation().
RigStartRecordingAnimation ==
  /\ cameraRigRef
  /\ rig' = StartRecordingAnimation(rig)
  /\ UNCHANGED <<cameraRigRef, clock, camera>>

RigStopRecordingAnimation ==
  /\ cameraRigRef
  /\ rig' = StopRecordingAnimation(rig)
  /\ UNCHANGED <<cameraRigRef, clock, camera>>

RigResetAnimation ==
  /\ cameraRigRef
  /\ rig' = ResetAnimation(rig)
  /\ camera' = ResetCamera
  /\ UNCHANGED <<cameraRigRef, clock>>

\* A frame is rendered gap ticks after the last one: the rig's useFrame runs.
RigFrame(gap) ==
  /\ cameraRigRef
  /\ clock + gap <= Sec(MaxClock)
  /\ clock' = clock + gap
  /\ rig' = UseFrameRig(rig, clock')
  /\ camera' = UseFrameCamera(rig, clock')
  /\ UNCHANGED cameraRigRef

\* A frame is rendered after the page has been left alone for 100 s: the render
\* clock has gone on and the rig's useFrame runs with it.
RigFrameAfterPause ==
  /\ cameraRigRef
  /\ clock + Sec(100) <= Sec(MaxPause)
  /\ clock' = clock + Sec(100)
  /\ rig' = UseFrameRig(rig, clock')
  /\ camera' = UseFrameCamera(rig, clock')
  /\ UNCHANGED cameraRigRef

\* Nothing refers to the settled call c any more: no reference of the hook, no
\* timer and no animation-frame callback.
Collectable(c) ==
  /\ cap[c].pc = "settled"
  /\ c \notin {outputRef, videoSourceRef, audioSourceRef, audioCleanupRef}
  /\ \A i \in 1..Len(timers) : timers[i].kind = "hgvRetry" \/ timers[i].id # c
  /\ \A i \in 1..Len(rafQueue) : rafQueue[i] # TickCb(c)
  /\ \A i \in 1..Len(running) : running[i] # TickCb(c)
  /\ \A r \in Runs : run[r].call # c

NoGarbage == \A c \in Calls : ~Collectable(c)

\* The closure, the promise and the Output of a settled call are reclaimed.
Collect(c) ==
  /\ Collectable(c)
  /\ cap' = [cap EXCEPT ![c] = NoCall]
  /\ UNCHANGED <<browserVars, refVars, stops>>

\* ---------------------------------------------------------- specifications
InitBrowser ==
  /\ phase = "idle"
  /\ rafQueue = <<>>
  /\ running = <<>>
  /\ timers = <<>>

InitHook ==
  /\ isRecordingRef = FALSE
  /\ outputRef = NULL
  /\ videoSourceRef = NULL
  /\ audioSourceRef = NULL
  /\ audioCleanupRef = NULL
  /\ cap = [c \in Calls |-> NoCall]
  /\ stops = 0

\* No rig is mounted and the render clock is not followed.
InitNoRig ==
  /\ cameraRigRef = FALSE
  /\ rig = NoRig
  /\ clock = 0
  /\ camera = FreeCamera

\* A rig has mounted with 0..MaxAssets asset positions.
InitRig ==
  /\ cameraRigRef = TRUE
  /\ \E n \in 0..MaxAssets, hasStart \in BOOLEAN : rig = MountedRig(n, hasStart)
  /\ clock = 0
  /\ camera = FreeCamera

\* The App has no assets yet, music is on, and nothing has been clicked.
InitApp ==
  /\ isRecording = FALSE
  /\ isVideoMode = FALSE
  /\ assets = 0
  /\ enableMusic = TRUE
  /\ committed = Current
  /\ closure = Closure(Current)
  /\ run = [r \in Runs |-> NoRun]

\* The durations a caller of the hook asks for: 1..MaxDuration seconds.
Durations == {Rat(d, 1) : d \in 1..MaxDuration}

\* The other variables when the hook takes a step on its own.
HookOnly == UNCHANGED <<rigVars, appVars>>

\* The hook used by a caller that starts captures of the durations above and
\* may stop them. A settled call that nothing refers to is dropped first.
NextHook ==
  \/ (\E c \in Calls : Collect(c)) /\ HookOnly
  \/ /\ \E c \in Calls, d \in Durations, m \in BOOLEAN : StartRecordingCall(c, d, m)
     /\ NoGarbage
     /\ HookOnly
  \/ StopRecording /\ NoGarbage /\ HookOnly
  \/ StopRecordingFinally /\ NoGarbage /\ HookOnly
  \/ (\E c \in Calls, ok \in BOOLEAN : AudioLoaded(c, ok)) /\ NoGarbage /\ HookOnly
  \/ (\E c \in Calls, ok \in BOOLEAN : OutputStartSettle(c, ok)) /\ NoGarbage /\ HookOnly
  \/ (\E c \in Calls, ok \in BOOLEAN : FinalizeSettle(c, ok)) /\ NoGarbage /\ HookOnly
  \/ (\E gap \in Gaps : AdvanceTime(gap)) /\ NoGarbage /\ HookOnly
  \/ TickDelayFires /\ NoGarbage /\ HookOnly
  \/ (\E track \in BOOLEAN : AudioWaitFires(track)) /\ NoGarbage /\ HookOnly
  \/ AudioPauseFires /\ NoGarbage /\ HookOnly
  \/ AudioCleanupFires /\ NoGarbage /\ HookOnly
  \/ FrameBegin /\ NoGarbage /\ HookOnly
  \/ (\E throws \in BOOLEAN : RunCaptureFrame(throws)) /\ NoGarbage /\ HookOnly

InitOfHook == InitBrowser /\ InitHook /\ InitNoRig /\ InitApp

SpecHook == InitOfHook /\ [][NextHook]_vars

\* The hook used by a caller that asks for captures shorter than a second:
\* 1/25 s, a frame and a fifth, and 1/20 s, a frame and a half.
FractionalDurations == {Rat(1, 25), Rat(1, 20)}

NextFraction ==
  \/ (\E c \in Calls : Collect(c)) /\ HookOnly
  \/ /\ \E c \in Calls, d \in FractionalDurations, m \in BOOLEAN : StartRecordingCall(c, d, m)
     /\ NoGarbage
     /\ HookOnly
  \/ StopRecording /\ NoGarbage /\ HookOnly
  \/ StopRecordingFinally /\ NoGarbage /\ HookOnly
  \/ (\E c \in Calls, ok \in BOOLEAN : AudioLoaded(c, ok)) /\ NoGarbage /\ HookOnly
  \/ (\E c \in Calls, ok \in BOOLEAN : OutputStartSettle(c, ok)) /\ NoGarbage /\ HookOnly
  \/ (\E c \in Calls, ok \in BOOLEAN : FinalizeSettle(c, ok)) /\ NoGarbage /\ HookOnly
  \/ (\E gap \in Gaps : AdvanceTime(gap)) /\ NoGarbage /\ HookOnly
  \/ TickDelayFires /\ NoGarbage /\ HookOnly
  \/ (\E track \in BOOLEAN : AudioWaitFires(track)) /\ NoGarbage /\ HookOnly
  \/ AudioPauseFires /\ NoGarbage /\ HookOnly
  \/ AudioCleanupFires /\ NoGarbage /\ HookOnly
  \/ FrameBegin /\ NoGarbage /\ HookOnly
  \/ (\E throws \in BOOLEAN : RunCaptureFrame(throws)) /\ NoGarbage /\ HookOnly

InitOfFraction == InitBrowser /\ InitHook /\ InitNoRig /\ InitApp

SpecFraction == InitOfFraction /\ [][NextFraction]_vars

\* The sizes of the canvas: of even and of odd width and height.
CanvasSizes == {[width |-> 800, height |-> 600], [width |-> 801, height |-> 481]}

\* The renderer resizes the canvas with its container: the canvas of the next
\* call while nothing is recorded, or that of a capture between two ticks.
ResizeCanvas(c, size) ==
  /\ phase = "idle"
  /\ \/ cap[c].pc = "loop"
     \/ AllSettled /\ cap[c].pc = "none" /\ \A b \in Calls : b < c => cap[b].pc # "none"
  /\ cap[c].canvas # size
  /\ cap' = [cap EXCEPT ![c].canvas = size]
  /\ UNCHANGED <<browserVars, refVars, stops>>

\* The hook with short captures on a canvas that is resized.
NextCanvas ==
  \/ NextFraction
  \/ (\E c \in Calls, size \in CanvasSizes : ResizeCanvas(c, size)) /\ NoGarbage /\ HookOnly

SpecCanvas == InitOfHook /\ [][NextCanvas]_vars

\* A caller invokes startRecording once stopRecording has returned, while a
\* tick of the stopped capture is still pending: the flag is clear, so the
\* guard of startRecording lets the call pass.
RestartCall(c, d, m) ==
  /\ phase = "idle"
  /\ ~isRecordingRef /\ stops = 0
  /\ \E b \in Calls : InLoop(b) /\ cap[b].cancelCalls > 0
  /\ \A b \in Calls : b < c => cap[b].pc # "none"
  /\ StartRecording(c, d, m)
  /\ UNCHANGED <<browserVars, stops>>

\* The hook with short captures that are stopped and started again.
NextRestart ==
  \/ NextFraction
  \/ /\ \E c \in Calls, d \in FractionalDurations : RestartCall(c, d, FALSE)
     /\ NoGarbage
     /\ HookOnly

SpecRestart == InitOfHook /\ [][NextRestart]_vars

\* The browser delivers the next animation frame late, as it does for a page in
\* the background or a scene that is slow to render, while an audio element
\* plays: timers keep their wall-clock times and the capture loop falls behind.
LateFrame(gap) ==
  /\ phase = "idle"
  /\ ~Awaiting
  /\ \E c \in Calls : InLoop(c) /\ cap[c].audio = "playing"
  /\ phase' = "due"
  /\ timers' = [i \in 1..Len(timers) |-> [timers[i] EXCEPT !.left = @ - gap]]
  /\ cap' = [c \in Calls |->
               IF InLoop(c) THEN [cap[c] EXCEPT !.sinceStart = @ + gap] ELSE cap[c]]
  /\ UNCHANGED <<rafQueue, running, refVars, stops>>

\* The hook with short captures whose animation frames may come 1.2 s late.
NextLate ==
  \/ NextFraction
  \/ LateFrame(Ms(1200)) /\ NoGarbage /\ HookOnly

SpecLate == InitOfHook /\ [][NextLate]_vars

\* A DynamicCameraRig used through its handle while frames are rendered.
RigOnly == UNCHANGED <<browserVars, hookVars, appVars>>

NextRig ==
  \/ RigStartRecordingAnimation /\ RigOnly
  \/ RigStopRecordingAnimation /\ RigOnly
  \/ RigResetAnimation /\ RigOnly
  \/ (\E gap \in RigFrameGaps : RigFrame(gap)) /\ RigOnly

\* A rig followed on its own over minutes of the render clock.
NextPreview ==
  \/ NextRig
  \/ RigFrameAfterPause /\ RigOnly

InitOfRig == InitBrowser /\ InitHook /\ InitRig /\ InitApp

SpecRig == InitOfRig /\ [][NextRig]_vars

SpecPreview == InitOfRig /\ [][NextPreview]_vars

\* The props the App renders a mounted rig with after an asset operation: no
\* position (clear), one, or three, without or with a start position.
RenderedProps == {<<0, FALSE>>, <<1, TRUE>>, <<3, TRUE>>}

\* React renders the mounted rig again with the props the App now gives it: n
\* asset positions and, if hasStart, a start position. An asset operation of
\* the App (add, remove, clear, shuffle, move) reaches the rig this way. The
\* refs keep their values; only what generateRandomKeyframes closes over is new.
\* Before it a faulty variant that builds the path again from the new props.
RigRenderRegenerates(n, hasStart) ==
  /\ cameraRigRef
  /\ rig.assetsPositions # n \/ rig.startPosition # hasStart
  /\ rig' = [StartRecordingAnimation([rig EXCEPT !.assetsPositions = n,
                                                  !.startPosition = hasStart])
               EXCEPT !.isRecordingRef = rig.isRecordingRef,
                      !.animationStartTimeRef = rig.animationStartTimeRef]
  /\ UNCHANGED <<cameraRigRef, clock, camera>>
RigRender(n, hasStart) ==
  /\ cameraRigRef
  /\ rig.assetsPositions # n \/ rig.startPosition # hasStart
  /\ rig' = [rig EXCEPT !.assetsPositions = n, !.startPosition = hasStart]
  /\ UNCHANGED <<cameraRigRef, clock, camera>>

\* A rig used through its handle while the App renders it with changing props.
NextRender ==
  \/ RigStartRecordingAnimation /\ RigOnly
  \/ RigStopRecordingAnimation /\ RigOnly
  \/ RigResetAnimation /\ RigOnly
  \/ (\E gap \in RigFrameGaps : RigFrame(gap)) /\ RigOnly
  \/ (\E p \in RenderedProps : RigRender(p[1], p[2])) /\ RigOnly

SpecRender == InitOfRig /\ [][NextRender]_vars

\* The App: its render loop runs from the start.
InitRenderLoop ==
  /\ phase = "idle"
  /\ rafQueue = << R3fCb >>
  /\ running = << >>
  /\ timers = << >>

\* No settled call is left to drop and no settled promise awaits its
\* continuation in handleGenerateVideo: the next task may run.
Quiet == NoGarbage /\ NoContinuation

NextApp ==
  \/ (\E c \in Calls : Collect(c)) /\ HookOnly
  \/ (\E r \in Runs : HgvSettled(r)) /\ NoGarbage
  \/ (\E c \in Calls, ok \in BOOLEAN : AudioLoaded(c, ok)) /\ Quiet /\ HookOnly
  \/ (\E c \in Calls, ok \in BOOLEAN : OutputStartSettle(c, ok)) /\ Quiet /\ HookOnly
  \/ (\E c \in Calls, ok \in BOOLEAN : FinalizeSettle(c, ok)) /\ Quiet /\ HookOnly
  \/ TickDelayFires /\ Quiet /\ HookOnly
  \/ (\E track \in BOOLEAN : AudioWaitFires(track)) /\ Quiet /\ HookOnly
  \/ AudioPauseFires /\ Quiet /\ HookOnly
  \/ AudioCleanupFires /\ Quiet /\ HookOnly
  \/ FrameBegin /\ Quiet /\ HookOnly
  \/ (\E gap \in Gaps : AdvanceTimeApp(gap)) /\ Quiet
  \/ (\E throws \in BOOLEAN : RunCaptureFrameApp(throws)) /\ Quiet
  \/ RunR3f /\ Quiet
  \/ RunHgvFrame /\ Quiet
  \/ HgvRetryFires /\ Quiet
  \/ Commit /\ Quiet
  \/ (\E now \in ClockAtMount : MountRig(now)) /\ Quiet
  \/ (\E r \in Runs : HandleGenerateVideo(r)) /\ Quiet
  \/ AddAsset /\ Quiet
  \/ RemoveAsset /\ Quiet
  \/ ToggleMusic /\ Quiet

InitOfApp == InitRenderLoop /\ InitHook /\ InitNoRig /\ InitApp

SpecApp == InitOfApp /\ [][NextApp]_vars

\* The App from its start to the end of the first generation: the user loads
\* assets and clicks once.
NextFirstRun ==
  \/ (\E c \in Calls : Collect(c)) /\ HookOnly
  \/ HgvSettled(1) /\ NoGarbage
  \/ (\E c \in Calls, ok \in BOOLEAN : AudioLoaded(c, ok)) /\ Quiet /\ HookOnly
  \/ (\E c \in Calls, ok \in BOOLEAN : OutputStartSettle(c, ok)) /\ Quiet /\ HookOnly
  \/ (\E c \in Calls, ok \in BOOLEAN : FinalizeSettle(c, ok)) /\ Quiet /\ HookOnly
  \/ TickDelayFires /\ Quiet /\ HookOnly
  \/ (\E track \in BOOLEAN : AudioWaitFires(track)) /\ Quiet /\ HookOnly
  \/ AudioPauseFires /\ Quiet /\ HookOnly
  \/ AudioCleanupFires /\ Quiet /\ HookOnly
  \/ FrameBegin /\ Quiet /\ HookOnly
  \/ (\E gap \in Gaps : AdvanceTimeApp(gap)) /\ Quiet
  \/ (\E throws \in BOOLEAN : RunCaptureFrameApp(throws)) /\ Quiet
  \/ RunR3f /\ Quiet
  \/ RunHgvFrame /\ Quiet
  \/ HgvRetryFires /\ Quiet
  \/ Commit /\ Quiet
  \/ (\E now \in ClockAtMount : MountRig(now)) /\ Quiet
  \/ HandleGenerateVideo(1) /\ Quiet
  \/ AddAsset /\ Quiet

\* The "+ Add Assets" button is disabled only while a file is uploading, and
\* the "x" button of an asset never: the user loads or removes an asset while a
\* video is generated.
AddAssetWhileRecording ==
  /\ isRecording /\ committed = Current /\ phase = "idle"
  /\ assets < MaxLoaded
  /\ assets' = assets + 1
  /\ UNCHANGED <<browserVars, hookVars, rigVars, isRecording, isVideoMode, enableMusic,
                 committed, closure, run>>

RemoveAssetWhileRecording ==
  /\ isRecording /\ committed = Current /\ phase = "idle"
  /\ assets > 0
  /\ assets' = assets - 1
  /\ UNCHANGED <<browserVars, hookVars, rigVars, isRecording, isVideoMode, enableMusic,
                 committed, closure, run>>

\* The first generation of the App with a user who keeps editing the scene.
NextEditing ==
  \/ NextFirstRun
  \/ AddAssetWhileRecording /\ Quiet
  \/ RemoveAssetWhileRecording /\ Quiet

SpecEditing == InitOfApp /\ [][NextEditing]_vars

\* Fair scheduling: the browser runs every animation frame and every due
\* timer and lets time pass, React commits every pending render and runs the
\* continuation of every settled promise, and finalize() settles. Nothing makes
\* the user act, the rig mount, the audio element load or output.start() settle.
\* For RunHgvFrame and HgvRetryFires weak fairness is written out with the
\* states that enable them: the callback of handleGenerateVideo is the next of
\* the running frame, its retry timer is the next due timer (a call slot is
\* free during the first run).
FairFirstRun ==
  /\ WF_vars((\E c \in Calls : Collect(c)) /\ HookOnly)
  /\ WF_vars(HgvSettled(1) /\ NoGarbage)
  /\ WF_vars((\E c \in Calls, ok \in BOOLEAN : FinalizeSettle(c, ok)) /\ Quiet /\ HookOnly)
  /\ WF_vars(TickDelayFires /\ Quiet /\ HookOnly)
  /\ WF_vars((\E track \in BOOLEAN : AudioWaitFires(track)) /\ Quiet /\ HookOnly)
  /\ WF_vars(AudioPauseFires /\ Quiet /\ HookOnly)
  /\ WF_vars(AudioCleanupFires /\ Quiet /\ HookOnly)
  /\ WF_vars(FrameBegin /\ Quiet /\ HookOnly)
  /\ WF_vars((\E gap \in Gaps : AdvanceTimeApp(gap)) /\ Quiet)
  /\ WF_vars((\E throws \in BOOLEAN : RunCaptureFrameApp(throws)) /\ Quiet)
  /\ WF_vars(RunR3f /\ Quiet)
  /\ \/ []<>(~(phase = "frame" /\ Head(running).kind = "hgv" /\ Quiet))
     \/ []<><<RunHgvFrame /\ Quiet>>_vars
  /\ \/ []<>(~(phase = "due" /\ TimerDue /\ timers[NextTimer].kind = "hgvRetry" /\ Quiet))
     \/ []<><<HgvRetryFires /\ Quiet>>_vars
  /\ WF_vars(Commit /\ Quiet)

SpecFirstRunFair == InitOfApp /\ [][NextFirstRun]_vars /\ FairFirstRun

\* interpolateKeyframes on its own: a rig that holds a path of two or three
\* keyframes with numeric positions, from 0 s or 2 s to 10 s, in record or in
\* preview mode, is asked for the pose at the times of InterpolationTimes.
Positions == {Vector3(0, 2, 5), Vector3(4, 0, -6), Vector3(-3, 5, 1)}
Fovs == {35, 50, 60}
PathStarts == {Sec(0), Sec(2)}
PathEnd == Sec(10)

PathOf(start, A, B, fovA, fovB, middle) ==
  << Keyframe(start, A, B, fovA) >>
  \o (IF middle THEN << Keyframe(Sec(4), Vector3(1, 1, 1), Vector3(0, 0, 0), 40) >> ELSE << >>)
  \o << Keyframe(PathEnd, B, A, fovB) >>

\* The times interpolateKeyframes is asked for: every half second from one
\* second before the start of a path to past the longest path.
InterpolationTimes == {i * Ms(500) : i \in (-2)..(2 * MaxClock)}

InitInterpolation ==
  /\ cameraRigRef = TRUE
  /\ \E start \in PathStarts, A, B \in Positions, fovA, fovB \in Fovs,
        middle \in BOOLEAN, recording \in BOOLEAN :
       rig = [MountedRig(0, FALSE) EXCEPT
                !.isRecordingRef = recording,
                !.keyframesRef = PathOf(start, A, B, fovA, fovB, middle),
                !.dynamicDurationRef = 10]
  /\ clock = 0
  /\ camera = FreeCamera

\* interpolateKeyframes(t) is called and its result kept as the camera's pose.
InterpolateKeyframesAt(t) ==
  /\ camera' = [pose |-> InterpolateKeyframes(rig, t), time |-> t, fresh |-> TRUE]
  /\ UNCHANGED <<cameraRigRef, rig, clock>>

NextInterpolation == (\E t \in InterpolationTimes : InterpolateKeyframesAt(t)) /\ RigOnly

InitOfInterpolation == InitBrowser /\ InitHook /\ InitInterpolation /\ InitApp

SpecInterpolation == InitOfInterpolation /\ [][NextInterpolation]_vars

\* ------------------------------------------------------------------ claims
\* The capture of call c has not been cancelled.
NotCancelled(c) == cap[c].cancelCalls = 0

\* The capture of call c is one of a whole number of seconds.
WholeSeconds(c) == cap[c].duration.den = 1

\* Call c submits a frame in this step.
Submits(c) == cap'[c].adds > cap[c].adds

\* C1: a capture of D seconds that is neither cancelled nor hit by an error
\* submits its frames in order, frame i with timestamp i/30 and duration 1/30,
\* never more than D*30 of them and none once finalize() has been called, and it
\* calls finalize() only when exactly D*30 frames have been submitted; the
\* video it resolves with holds D*30 frames.
C1_FramesThenFinalize ==
  [][\A c \in Calls :
       /\ Submits(c) =>
            /\ cap'[c].adds = cap[c].adds + 1
            /\ WholeSeconds(c) => cap[c].adds < cap[c].duration.num * 30
            /\ RatEq(cap'[c].lastTs, Rat(cap[c].adds, 30))
            /\ RatEq(cap'[c].lastDur, Rat(1, 30))
            /\ cap[c].finalizeCalls = 0
       /\ (cap[c].pc = "loop" /\ cap'[c].pc = "finalize" /\ NotCancelled(c)
             /\ WholeSeconds(c)) =>
            cap[c].adds = cap[c].duration.num * 30
       /\ (cap'[c].promise = "resolved" /\ cap[c].promise = "pending" /\ NotCancelled(c)
             /\ WholeSeconds(c)) =>
            cap'[c].video = cap[c].duration.num * 30]_vars

\* A capture of the longest duration has resolved with all its frames.
C1_Witness ==
  \E c \in Calls :
    /\ cap[c].promise = "resolved"
    /\ NotCancelled(c)
    /\ cap[c].duration = Rat(MaxDuration, 1)
    /\ cap[c].video = MaxDuration * 30

\* C4: once submitting a frame has thrown, the promise is rejected without video
\* bytes and the hook is idle: the recording flag is false and the output and
\* video-source references are cleared.
C4_IdleAfterFrameError ==
  \A c \in Calls :
    cap[c].error = "add failed" =>
      /\ cap[c].promise = "rejected"
      /\ cap[c].video = 0
      /\ ~isRecordingRef
      /\ outputRef = NULL
      /\ videoSourceRef = NULL

\* C5: once the promise of a capture has settled, on whichever exit path, and
\* no other call is in progress, the recording flag is false, so that a later
\* startRecording is accepted.
C5_IdleOnceSettled ==
  (/\ AllSettled
   /\ stops = 0
   /\ \E c \in Calls : cap[c].pc = "settled" /\ cap[c].error # "Already recording")
    => ~isRecordingRef

\* C10: for a capture on which stopRecording has been called, at whatever point,
\* each resource is released exactly once: its output is cancelled once and
\* not finalized as well, and its audio cleanup function runs not more than
\* once, and once when the pending timers have run.
C10_ReleasedOnce ==
  \A c \in Calls :
    cap[c].cancelCalls > 0 =>
      /\ cap[c].cancelCalls = 1
      /\ cap[c].finalizeCalls = 0
      /\ cap[c].cleanupRuns <= 1
      /\ (cap[c].pc = "settled" /\ timers = <<>> /\ stops = 0
            /\ cap[c].audio \in {"playing", "paused", "closed"}) => cap[c].cleanupRuns = 1

\* The rig's useFrame callback runs in this step.
RigTicks ==
  /\ cameraRigRef
  /\ phase = "frame"
  /\ Head(running) = R3fCb
  /\ running' = Tail(running)

\* C2: on every tick of a recording rig during the capture of a run, the
\* elapsed time the rig hands to interpolateKeyframes is the time of the frame
\* the capture loop is at, frame index / 30.
C2_ElapsedIsFrameTime ==
  [][\A r \in Runs :
       (RigTicks /\ rig.isRecordingRef /\ run[r].pc = "capture") =>
         CurrentTime(rig, clock) = ExpectedTime(cap[run[r].call].frameCount)]_vars

\* startRecording is called in this step as call c while the recording flag is
\* set.
SecondStart(c) == isRecordingRef /\ cap[c].pc = "none" /\ cap'[c].pc # "none"

\* C3: a call of startRecording made while a capture is in progress fails at
\* once with 'Already recording' and changes nothing else: not the frame
\* counter, output or promise of any other call, not the recording flag or the
\* references, not what is scheduled, not the rig and not the video mode. (The
\* App itself makes no such call: the generate button is rendered disabled
\* before the next click is dispatched, see HandleGenerateVideo.)
C3_SecondStartRejected ==
  [][\A c \in Calls :
       SecondStart(c) =>
         /\ cap'[c].pc = "settled"
         /\ cap'[c].promise = "rejected"
         /\ cap'[c].error = "Already recording"
         /\ \A b \in Calls \ {c} : cap'[b] = cap[b]
         /\ UNCHANGED <<refVars, browserVars, rigVars, isVideoMode>>]_vars

\* A call has been rejected with 'Already recording' while the capture of
\* another call is in its loop with frames submitted, still recording.
C3_Witness ==
  \E c, b \in Calls :
    /\ cap[c].error = "Already recording"
    /\ cap[b].pc = "loop"
    /\ cap[b].frameCount > 0
    /\ isRecordingRef
    /\ outputRef = b

\* C6: whenever a run of handleGenerateVideo calls startRecording, the rig is
\* attached and recording a generated path, and the duration given to the
\* capture is the time of the last keyframe of that path.
C6_DurationIsPathLength ==
  [][\A r \in Runs :
       (run[r].pc # "capture" /\ run'[r].pc = "capture") =>
         /\ cameraRigRef'
         /\ rig'.isRecordingRef
         /\ rig'.keyframesRef # << >>
         /\ rig'.keyframesRef[Len(rig'.keyframesRef)].time = Sec(run'[r].dynamicDuration)]_vars

\* C9: whenever the capture loop submits a frame, a rig tick has applied a pose
\* to the camera since the frame before was submitted, and that pose is the one
\* of the time of the submitted frame.
C9_PoseBeforeFrame ==
  [][\A c \in Calls :
       Submits(c) =>
         /\ camera.fresh
         /\ camera.time = ExpectedTime(cap[c].frameCount)]_vars

\* The keyframes of the rig, and whether it has a path generated for a
\* non-empty list of asset positions: the path of a single asset, or one with an
\* approach keyframe.
Keyframes == rig.keyframesRef
SingleAssetPath == Keyframes # << >> /\ Keyframes[1].lookAt = AssetPoint(1)
HasKeyframes ==
  /\ cameraRigRef
  /\ \/ SingleAssetPath
     \/ \E i \in 1..Len(Keyframes) : Keyframes[i].position.at = "approach"

\* C7, as stated: the keyframes startRecordingAnimation produces are sorted
\* strictly ascending by time (no two share a time), the first has time 0 and
\* the last has the time of the dynamic duration.
C7_StrictlyAscending ==
  HasKeyframes =>
    /\ \A i \in 1..(Len(Keyframes) - 1) : Keyframes[i].time < Keyframes[i + 1].time
    /\ Keyframes[1].time = 0
    /\ Keyframes[Len(Keyframes)].time = Sec(GetDynamicDuration(rig))

\* C7, amended: the keyframes are sorted ascending by time, where keyframes may
\* share a time (strictly ascending for a single asset), the first has time 0
\* and the last has the time of the dynamic duration.
C7_Ascending ==
  HasKeyframes =>
    /\ \A i \in 1..(Len(Keyframes) - 1) : Keyframes[i].time <= Keyframes[i + 1].time
    /\ SingleAssetPath =>
         \A i \in 1..(Len(Keyframes) - 1) : Keyframes[i].time < Keyframes[i + 1].time
    /\ Keyframes[1].time = 0
    /\ Keyframes[Len(Keyframes)].time = Sec(GetDynamicDuration(rig))

\* A rig has generated the path of a tour of MaxAssets assets, which is longer
\* than 20 seconds and in which the transition away from an asset shares its
\* time with the approach of the next.
C7_Witness ==
  /\ HasKeyframes
  /\ rig.isRecordingRef
  /\ GetDynamicDuration(rig) > 20
  /\ \E i \in 1..(Len(Keyframes) - 1) :
       /\ Keyframes[i].time = Keyframes[i + 1].time
       /\ Keyframes[i].position.at = "transition"
       /\ Keyframes[i + 1].position.at = "approach"

\* startRecordingAnimation() runs in this step.
Generates ==
  /\ cameraRigRef
  /\ rig' # rig
  /\ rig'.isRecordingRef
  /\ rig'.animationStartTimeRef = NULL
  /\ rig'.assetsPositions = rig.assetsPositions

\* C8: for n >= 2 asset positions, the dynamic duration the path generator
\* computes, which getDynamicDuration returns, is max(20, 6 + 4 n) seconds.
C8_DynamicDuration ==
  [][(Generates /\ rig.assetsPositions >= 2) =>
       GetDynamicDuration(rig') =
         IF 6 + 4 * rig.assetsPositions > 20 THEN 6 + 4 * rig.assetsPositions ELSE 20]_vars

\* A path has been generated for five assets, with a dynamic duration of 26 s.
C8_Witness ==
  /\ cameraRigRef
  /\ rig.isRecordingRef
  /\ rig.assetsPositions = 5
  /\ Len(Keyframes) = 19
  /\ GetDynamicDuration(rig) = 26

\* The capture of call c obtained an audio track: createAudioStreamFromFile
\* returned {audioSource, cleanup} to it.
HadTrack(c) ==
  /\ cap[c].pc \notin {"none", "audioLoad", "audioWait"}
  /\ cap[c].audio \in {"playing", "paused", "closed"}

\* Nothing of the hook is pending: every call has settled, no stopRecording
\* awaits cancel(), and no timer or animation-frame callback is left.
HookAtRest ==
  /\ AllSettled
  /\ stops = 0
  /\ phase = "idle"
  /\ timers = <<>>
  /\ rafQueue = <<>>

\* C11: for every capture that obtained an audio track, whose output started
\* and which was not cancelled, the cleanup function of its audio runs not more than once, only once the
\* capture's finalize step is over, and it has run once when nothing of the hook
\* is pending any more, also when the capture ended by a tick error.
C11_CleanupOnceAfterFinalize ==
  \A c \in Calls :
    (HadTrack(c) /\ cap[c].output = "started" /\ NotCancelled(c)) =>
      /\ cap[c].cleanupRuns <= 1
      /\ cap[c].cleanupRuns = 1 => (cap[c].pc = "settled" /\ cap[c].finalizeCalls = 1)
      /\ HookAtRest => cap[c].cleanupRuns = 1

\* The retry wait of run r ends in this step and finds no rig attached.
RetryFindsNoRig(r) == run[r].pc = "retry" /\ run'[r].pc # "retry" /\ ~cameraRigRef

\* C12: when the rig is still not attached after the three animation frames and
\* the 100 ms retry, the run aborts: startRecording is not called, so that no
\* call of the hook begins and the recording flag of the hook stays clear.
C12_AbortsWithoutRig ==
  [][\A r \in Runs :
       RetryFindsNoRig(r) =>
         /\ run'[r].pc # "capture"
         /\ cap' = cap
         /\ ~isRecordingRef']_vars

\* C13: a startRecordingAnimation call made while the rig is Recording is
\* rejected: it leaves the keyframes, the dynamic duration and the clock origin
\* of the running recording as they are. (That the rig is in at most one of
\* Recording and Previewing holds by construction: useFrame selects the mode by
\* the one flag isRecordingRef.)
C13_StartWhileRecordingRejected ==
  (cameraRigRef /\ rig.isRecordingRef) =>
    /\ StartRecordingAnimation(rig).keyframesRef = rig.keyframesRef
    /\ StartRecordingAnimation(rig).dynamicDurationRef = rig.dynamicDurationRef
    /\ StartRecordingAnimation(rig).animationStartTimeRef = rig.animationStartTimeRef

\* The pose that is exactly keyframe k: its position, lookAt and fov, unblended.
Exactly(k) ==
  [position |-> [from |-> k.position, to |-> k.position, ease |-> "none", t |-> Rat(0, 1)],
   lookAt |-> [from |-> k.lookAt, to |-> k.lookAt, ease |-> "none", t |-> Rat(0, 1)],
   fov |-> [from |-> k.fov, to |-> k.fov, ease |-> "none", t |-> Rat(0, 1)]]

\* C14: for a rig with keyframes, interpolateKeyframes(t) returns exactly the
\* first keyframe's position, lookAt and fov for every t <= 0 and exactly the
\* last keyframe's for every t at or after the time of the last keyframe.
C14_ClampedToEnds ==
  (cameraRigRef /\ Keyframes # << >>) =>
    \A t \in InterpolationTimes :
      /\ t <= 0 => InterpolateKeyframes(rig, t) = Exactly(Keyframes[1])
      /\ t >= Keyframes[Len(Keyframes)].time =>
           InterpolateKeyframes(rig, t) = Exactly(Keyframes[Len(Keyframes)])

\* A recording rig has been ticked past the end of its path and has given the
\* camera the pose of the last keyframe.
C14_Witness ==
  /\ cameraRigRef /\ rig.isRecordingRef /\ Keyframes # << >>
  /\ camera.fresh
  /\ camera.time > Keyframes[Len(Keyframes)].time
  /\ camera.pose = Exactly(Keyframes[Len(Keyframes)])

\* The coordinates of a point.
Axes == {"x", "y", "z"}

\* The rig holds the path of two keyframes at 0 s and 10 s.
TwoKeyframePath ==
  /\ Len(Keyframes) = 2
  /\ Keyframes[1].time = Sec(0)
  /\ Keyframes[2].time = Sec(10)

\* The rational p lies strictly between the numbers a and b (and is a, where
\* the two are equal).
Between(a, p, b) ==
  IF a < b THEN RatLt(Rat(a, 1), p) /\ RatLt(p, Rat(b, 1))
  ELSE IF a > b THEN RatLt(Rat(b, 1), p) /\ RatLt(p, Rat(a, 1))
  ELSE RatEq(p, Rat(a, 1))

\* C15: on the path of two keyframes at 0 s (position A) and 10 s (position B),
\* interpolateKeyframes(5 s) returns the position (A + B) / 2 and the lookAt
\* midway between the two lookAt points, in record mode and in preview mode,
\* and for every time strictly between 0 s and 10 s the returned position lies
\* strictly between A and B, in every coordinate in which the two differ.
C15_MidpointAndBetween ==
  (TwoKeyframePath /\ camera.fresh) =>
    LET first == Keyframes[1]
        last == Keyframes[2]
        position == VectorOf(camera.pose.position)
        lookAt == VectorOf(camera.pose.lookAt)
    IN /\ camera.time = Sec(5) =>
            \A i \in Axes :
              /\ RatEq(position[i], Rat(first.position[i] + last.position[i], 2))
              /\ RatEq(lookAt[i], Rat(first.lookAt[i] + last.lookAt[i], 2))
       /\ (camera.time > Sec(0) /\ camera.time < Sec(10)) =>
            \A i \in Axes : Between(first.position[i], position[i], last.position[i])

\* interpolateKeyframes(5 s) has returned the midpoint of two different
\* positions on the two-keyframe path: once while recording, once in preview.
C15_Witness ==
  /\ TwoKeyframePath /\ camera.fresh /\ camera.time = Sec(5)
  /\ Keyframes[1].position # Keyframes[2].position
  /\ camera.pose.position.ease = "hermite"
  /\ \A i \in Axes :
       RatEq(VectorOf(camera.pose.position)[i],
             Rat(Keyframes[1].position[i] + Keyframes[2].position[i], 2))

C15_WitnessPreview ==
  /\ TwoKeyframePath /\ camera.fresh /\ camera.time = Sec(5)
  /\ Keyframes[1].position # Keyframes[2].position
  /\ camera.pose.position.ease = "quintic"
  /\ \A i \in Axes :
       RatEq(VectorOf(camera.pose.position)[i],
             Rat(Keyframes[1].position[i] + Keyframes[2].position[i], 2))

\* The curves as the claim writes them: 3t^2 - 2t^3 and 6t^5 - 15t^4 + 10t^3,
\* in lowest terms.
HermiteCurve(t) ==
  Reduced(3 * t.num * t.num * t.den - 2 * t.num * t.num * t.num, t.den * t.den * t.den)
QuinticCurve(t) ==
  Reduced(6 * t.num * t.num * t.num * t.num * t.num
            - 15 * t.num * t.num * t.num * t.num * t.den
            + 10 * t.num * t.num * t.num * t.den * t.den,
          t.den * t.den * t.den * t.den * t.den)

\* The blend factors k / CurveSteps the curves are compared at.
CurveSteps == 20

\* a <= b for two rationals whose denominators divide L.
RatLeOver(L, a, b) == a.num * (L \div a.den) <= b.num * (L \div b.den)

\* The easing curve e starts at 0, ends at 1 and does not decrease from one
\* blend factor k / CurveSteps to the next.
RisesFromZeroToOne(e(_)) ==
  /\ e(Rat(0, 1)) = Rat(0, 1)
  /\ e(Rat(1, 1)) = Rat(1, 1)
  /\ \A k \in 0..(CurveSteps - 1) :
       RatLeOver(CurveSteps * CurveSteps * CurveSteps * CurveSteps * CurveSteps,
                 e(Rat(k, CurveSteps)), e(Rat(k + 1, CurveSteps)))

\* The interval of the path the time of the camera's pose falls into: the
\* keyframe before it, strictly, and the keyframe at or after it.
InsidePath ==
  /\ camera.fresh
  /\ camera.time > Keyframes[1].time
  /\ camera.time < Keyframes[Len(Keyframes)].time
BeforeIndex ==
  CHOOSE i \in 1..(Len(Keyframes) - 1) :
    Keyframes[i].time < camera.time /\ camera.time <= Keyframes[i + 1].time
RawFactor ==
  Reduced(camera.time - Keyframes[BeforeIndex].time,
          Keyframes[BeforeIndex + 1].time - Keyframes[BeforeIndex].time)

\* C16: between two keyframes interpolateKeyframes blends position and lookAt of
\* the keyframe before and the keyframe after with the factor e(t), where t is
\* the fraction of the interval that has passed and e is the hermite curve
\* 3t^2 - 2t^3 when the rig is Recording and the quintic curve
\* 6t^5 - 15t^4 + 10t^3 when it is not; both curves start at 0, end at 1 and
\* never decrease in between. (No time selects an interval of zero length: the
\* search takes the first interval that holds the time.)
C16_EasedBlend ==
  /\ RisesFromZeroToOne(Hermite)
  /\ RisesFromZeroToOne(Quintic)
  /\ InsidePath =>
       LET before == Keyframes[BeforeIndex]
           after == Keyframes[BeforeIndex + 1]
           e == IF rig.isRecordingRef THEN HermiteCurve(RawFactor) ELSE QuinticCurve(RawFactor)
       IN /\ camera.pose.position.from = before.position
          /\ camera.pose.position.to = after.position
          /\ Eased(camera.pose.position.ease, camera.pose.position.t) = e
          /\ camera.pose.lookAt.from = before.lookAt
          /\ camera.pose.lookAt.to = after.lookAt
          /\ Eased(camera.pose.lookAt.ease, camera.pose.lookAt.t) = e

\* In preview, interpolateKeyframes has blended halfway between the middle and
\* the last keyframe of a path of three.
C16_Witness ==
  /\ InsidePath
  /\ ~rig.isRecordingRef
  /\ Len(Keyframes) = 3
  /\ BeforeIndex = 2
  /\ camera.time = Sec(7)
  /\ Eased(camera.pose.position.ease, camera.pose.position.t) = Rat(1, 2)
  /\ camera.pose.position.to # camera.pose.position.from

\* C17: between two keyframes the field of view interpolateKeyframes returns is
\* the linear interpolation of the two keyframes' fov values by the raw blend
\* factor t, not by the eased factor: before.fov + t * (after.fov - before.fov).
C17_FovLinearInRawFactor ==
  InsidePath =>
    RatEq(NumberOf(camera.pose.fov),
          Lerp(Keyframes[BeforeIndex].fov, Keyframes[BeforeIndex + 1].fov, RawFactor))

\* C17, amended: between two keyframes the field of view is blended like the
\* position, by the eased factor e(t) of the rig's mode:
\* before.fov + e(t) * (after.fov - before.fov).
C17_FovEased ==
  InsidePath =>
    LET e == IF rig.isRecordingRef THEN HermiteCurve(RawFactor) ELSE QuinticCurve(RawFactor)
    IN /\ camera.pose.fov.from = Keyframes[BeforeIndex].fov
       /\ camera.pose.fov.to = Keyframes[BeforeIndex + 1].fov
       /\ Eased(camera.pose.fov.ease, camera.pose.fov.t) = e
       /\ NumberOf(camera.pose.fov)
            = Lerp(Keyframes[BeforeIndex].fov, Keyframes[BeforeIndex + 1].fov, e)

\* While recording, a quarter into the path from fov 50 to fov 60 the returned
\* fov is 50 + 10 * 5/32, not 52.5.
C17_Witness ==
  /\ InsidePath
  /\ rig.isRecordingRef
  /\ TwoKeyframePath
  /\ camera.time = Sec(10) \div 4
  /\ Keyframes[1].fov = 50 /\ Keyframes[2].fov = 60
  /\ RatEq(NumberOf(camera.pose.fov), Rat(50 * 32 + 10 * 5, 32))

\* resetAnimation() is called in this step.
Resets ==
  /\ cameraRigRef
  /\ clock' = clock
  /\ rig' = ResetAnimation(rig)
  /\ camera' = ResetCamera

\* useFrame runs in this step on a rig that has been reset and not started
\* since: it is in preview and holds no keyframes.
PreviewTickAfterReset ==
  /\ cameraRigRef
  /\ clock' > clock
  /\ ~rig.isRecordingRef
  /\ rig.keyframesRef = << >>

\* C18: resetAnimation, from any rig state, puts the camera at (0, 2, 5) looking
\* at the origin with fov 50, empties the keyframe set, leaves the rig not
\* Recording and sets the dynamic duration back to the default of 20; keyframes
\* come back only with a recording, and until then every preview tick
\* interpolates the pose (0, 2, 5) / (0, 0, 0) / fov 50.
C18_ResetRestoresDefaults ==
  [][/\ Resets =>
          /\ camera'.pose.position = [from |-> [x |-> 0, y |-> 2, z |-> 5],
                                      to |-> [x |-> 0, y |-> 2, z |-> 5],
                                      ease |-> "none", t |-> Rat(0, 1)]
          /\ camera'.pose.lookAt = [from |-> [x |-> 0, y |-> 0, z |-> 0],
                                    to |-> [x |-> 0, y |-> 0, z |-> 0],
                                    ease |-> "none", t |-> Rat(0, 1)]
          /\ camera'.pose.fov = [from |-> 50, to |-> 50, ease |-> "none", t |-> Rat(0, 1)]
          /\ rig'.keyframesRef = << >>
          /\ ~rig'.isRecordingRef
          /\ rig'.dynamicDurationRef = 20
     /\ (rig.keyframesRef = << >> /\ rig'.keyframesRef # << >>) => rig'.isRecordingRef
     /\ PreviewTickAfterReset =>
          /\ rig'.keyframesRef = << >>
          /\ VectorOf(camera'.pose.position.to)
               = [x |-> Rat(0, 1), y |-> Rat(2, 1), z |-> Rat(5, 1)]
          /\ VectorOf(camera'.pose.lookAt)
               = [x |-> Rat(0, 1), y |-> Rat(0, 1), z |-> Rat(0, 1)]
          /\ NumberOf(camera'.pose.fov.to) = Rat(50, 1)]_vars

\* A rig whose clock has run has been reset: the camera stands in the default
\* pose, untouched by a tick since, and the rig holds no keyframes.
C18_Witness ==
  /\ cameraRigRef
  /\ clock > Sec(20)
  /\ camera = ResetCamera
  /\ rig.keyframesRef = << >>
  /\ ~rig.isRecordingRef

\* stopRecordingAnimation() is called in this step on a recording rig.
Stops ==
  /\ cameraRigRef
  /\ rig.isRecordingRef
  /\ clock' = clock
  /\ rig' = StopRecordingAnimation(rig)

\* C19: stopRecordingAnimation changes only the recording flag, to false, and
\* the clock origin, to unset: the camera's position, orientation and fov, the
\* keyframe set and the dynamic duration are as before the call, and so are the
\* props of the rig.
C19_StopChangesFlagAndOrigin ==
  [][Stops =>
       /\ ~rig'.isRecordingRef
       /\ rig'.animationStartTimeRef = NULL
       /\ rig'.keyframesRef = rig.keyframesRef
       /\ rig'.dynamicDurationRef = rig.dynamicDurationRef
       /\ rig'.assetsPositions = rig.assetsPositions
       /\ rig'.startPosition = rig.startPosition
       /\ camera' = camera]_vars

\* A recording of more than 20 seconds has been stopped after ticks that moved
\* the camera along its path: the rig previews with the path, the longer
\* dynamic duration and the camera where the last tick put it.
C19_Witness ==
  /\ cameraRigRef
  /\ ~rig.isRecordingRef
  /\ rig.animationStartTimeRef = NULL
  /\ rig.keyframesRef # << >>
  /\ rig.dynamicDurationRef > 20
  /\ camera.fresh
  /\ camera.pose.position.ease = "hermite"

\* round(d * 30) for a duration d of d.num / d.den seconds.
RoundedFrames(d) == (2 * d.num * 30 + d.den) \div (2 * d.den)

\* C20: a capture that was not cancelled and has resolved has submitted
\* round(d * 30) frames, for its duration d, whole or not.
C20_RoundedFrameCount ==
  \A c \in Calls :
    (cap[c].promise = "resolved" /\ NotCancelled(c)) =>
      cap[c].adds = RoundedFrames(cap[c].duration)

\* C21: for a rig with an empty list of asset positions the keyframe set that
\* startRecordingAnimation produces has exactly one keyframe, which looks at
\* the centre (the origin, for no assets).
C21_OneKeyframeWithoutAssets ==
  (cameraRigRef /\ rig.assetsPositions = 0 /\ Keyframes # << >>) =>
    /\ Len(Keyframes) = 1
    /\ Keyframes[1].lookAt = Centre

\* C22: when the audio stream of a capture with music cannot be created (load
\* error, play error, no audio track), startRecording does not fail: at that
\* step the promise stays pending and the output is started; no audio source
\* and no cleanup function are stored for the capture, frames are submitted
\* up to the full count of its duration, and when the capture resolves without
\* having been cancelled it carries all of these frames.
C22_CaptureWithoutAudio ==
  [][\A c \in Calls :
       /\ (cap[c].music /\ cap[c].audio # "failed" /\ cap'[c].audio = "failed") =>
            /\ cap'[c].promise = "pending"
            /\ cap'[c].pc = "start"
            /\ cap'[c].output = "starting"
            /\ outputRef' = c
       /\ (cap[c].music /\ cap[c].audio = "failed") =>
            /\ audioSourceRef # c
            /\ audioCleanupRef # c
            /\ cap[c].cleanupRuns = 0
            /\ Submits(c) => cap[c].adds < cap[c].duration.num * 30
            /\ (cap'[c].promise = "resolved" /\ cap[c].promise = "pending"
                  /\ NotCancelled(c)) =>
                 cap'[c].video = cap[c].duration.num * 30]_vars

C22_Witness ==
  \E c \in Calls :
    /\ cap[c].music /\ cap[c].audio = "failed" /\ NotCancelled(c)
    /\ cap[c].duration = Rat(MaxDuration, 1)
    /\ cap[c].promise = "resolved"
    /\ cap[c].video = MaxDuration * 30

\* C23: once stopRecording has been called for a capture whose promise is
\* pending, that capture is never resolved with video bytes (finalize() is not
\* called on its output), no frame is submitted to it when every cancel() has
\* settled, and when it has settled and nothing is pending the hook is idle.
C23_StoppedCaptureRejects ==
  [][\A c \in Calls :
       (cap[c].cancelCalls > 0 /\ cap[c].promise = "pending") =>
         /\ cap'[c].promise # "resolved"
         /\ cap'[c].finalizeCalls = 0
         /\ stops = 0 => ~Submits(c)
         /\ (cap'[c].promise = "rejected" /\ stops' = 0 /\ AllSettled') =>
              (~isRecordingRef' /\ outputRef' = NULL /\ videoSourceRef' = NULL)]_vars

C25_SubmittedAtLockedSize ==
  [][\A c \in Calls :
       Submits(c) =>
         /\ cap'[c].submitted = cap[c].original
         /\ cap'[c].canvas = cap[c].original
         /\ cap'[c].original = cap[c].original
         /\ cap'[c].promise = "pending" /\ cap'[c].pc = "loop"]_vars

C25_Witness ==
  \E c \in Calls :
    /\ cap[c].pc = "loop"
    /\ cap[c].resized
    /\ cap[c].adds = 2
    /\ cap[c].submitted = cap[c].original
    /\ cap[c].canvas = cap[c].original
    /\ cap[c].original.width = 801

\* C26: every frame of a capture is submitted with a canvas of even width and
\* even height, whatever the size of the canvas was at the call.
C26_SubmittedEven ==
  \A c \in Calls :
    (cap[c].pc = "loop" /\ cap[c].adds > 0) =>
      (cap[c].submitted.width % 2 = 0 /\ cap[c].submitted.height % 2 = 0)

\* C27: handleGenerateVideo always leaves the recording state again: whenever
\* isRecording is set, isRecording and isVideoMode are false at some later
\* time, also when the rig never mounts, the audio metadata never loads or
\* output.start() never settles.
C27_LeavesRecordingState == isRecording ~> (~isRecording /\ ~isVideoMode)

\* The square of the distance from the asset to a point at the given offset,
\* in units of 1/400: sin^2 + cos^2 = 1 leaves radius^2 + height^2.
DistanceSquared(offset) == offset.radius * offset.radius + offset.height * offset.height

\* C28: a path generated for one asset and no start position, whatever the
\* seed angle: from keyframe to keyframe the distance of the camera from the
\* asset and the field of view both fall up to the keyframe at 12 s and both
\* rise from there on.
C28_DistanceAndFovVShaped ==
  (cameraRigRef /\ rig.assetsPositions = 1 /\ ~rig.startPosition /\ Keyframes # << >>) =>
    \A v \in SeedTurns : \A i \in 1..(Len(Keyframes) - 1) :
      LET before == DistanceSquared(OrbitOffset(Keyframes[i].position.step, v))
          after == DistanceSquared(OrbitOffset(Keyframes[i + 1].position.step, v))
      IN IF Keyframes[i + 1].time <= Sec(12)
           THEN after < before /\ Keyframes[i + 1].fov < Keyframes[i].fov
           ELSE after > before /\ Keyframes[i + 1].fov > Keyframes[i].fov

\* The keyframes of the path at time t whose position is of the given kind for
\* asset number a.
KeyframesAt(t, kind, a) ==
  {i \in 1..Len(Keyframes) :
     /\ Keyframes[i].time = t
     /\ Keyframes[i].position.at = kind
     /\ Keyframes[i].position.about = a}

Reaches(b, v) ==
  \/ b.from = v /\ b.to = v
  \/ b.to = v /\ b.ease # "none" /\ Eased(b.ease, b.t) = Rat(1, 1)
  \/ b.from = v /\ b.ease # "none" /\ Eased(b.ease, b.t) = Rat(0, 1)

\* C30: for every keyframe k of a generated path, interpolateKeyframes(k.time)
\* is the position, the lookAt and the field of view of k.
C30_PathMeetsEveryKeyframe ==
  (cameraRigRef /\ Keyframes # << >>) =>
    \A k \in 1..Len(Keyframes) :
      LET pose == InterpolateKeyframes(rig, Keyframes[k].time)
      IN /\ Reaches(pose.position, Keyframes[k].position)
         /\ Reaches(pose.lookAt, Keyframes[k].lookAt)
         /\ Reaches(pose.fov, Keyframes[k].fov)

\* C31: a step of the tick loop of one capture (a tick, or the end of its
\* finalize()) never finalizes the output of another capture in progress,
\* never counts a frame for it and never clears the reference to its output.
C31_TicksKeepToOwnCapture ==
  [][\A a, b \in Calls :
       (/\ a # b
        /\ cap[a].pc \in {"loop", "finalize"} /\ cap'[a].pc # cap[a].pc
        /\ cap[b].promise = "pending") =>
         /\ cap'[b].finalizeCalls = cap[b].finalizeCalls
         /\ cap'[b].adds = cap[b].adds
         /\ outputRef = b => outputRef' = b]_vars

\* The pending ticks of capture c: its timers that will request an animation
\* frame, and its callbacks requested for the next frame or in the frame that
\* is run.
PendingTicks(c) ==
  Cardinality({i \in 1..Len(timers) : timers[i].kind = "tickDelay" /\ timers[i].id = c})
  + Cardinality({i \in 1..Len(rafQueue) : rafQueue[i] = TickCb(c)})
  + Cardinality({i \in 1..Len(running) : running[i] = TickCb(c)})

\* C32: a capture in its tick loop has exactly one pending tick, a timer or a
\* requested animation frame; a capture outside the loop (before it, after the
\* finishing tick, after a failed submission) has none. A successful
\* submission leaves one pending tick.
C32_OnePendingTick ==
  [][\A c \in Calls :
       /\ PendingTicks(c)' = IF cap'[c].pc = "loop" THEN 1 ELSE 0
       /\ Submits(c) => (cap'[c].pc = "loop" /\ PendingTicks(c)' = 1)
       /\ (cap[c].pc = "loop" /\ cap'[c].pc # "loop") => PendingTicks(c)' = 0]_vars

C32_Witness ==
  \E c \in Calls :
    /\ cap[c].pc = "loop"
    /\ cap[c].adds = 1
    /\ PendingTicks(c) = 1
    /\ \E i \in 1..Len(timers) : timers[i].kind = "tickDelay" /\ timers[i].id = c

\* C33: a step other than stopRecording's that pauses the audio element of a
\* capture with audio, or runs its audio cleanup, comes only when the capture
\* is over: its last frame has been submitted and its output finalized.
C33_AudioOutlastsCapture ==
  [][\A c \in Calls :
       (/\ cap[c].music
        /\ stops' = stops
        /\ cap[c].pc \in {"start", "loop", "finalize"}
        /\ cap[c].audio = "playing") =>
          /\ cap'[c].audio = "playing"
          /\ cap'[c].cleanupRuns = cap[c].cleanupRuns]_vars

\* C34: the first tick of a recording, at whatever clock time it comes, makes
\* that time the origin, hands elapsed time 0 to the interpolator and gives the
\* camera exactly the pose of the first keyframe, whose position is the start
\* position when one was supplied; a later tick leaves the origin alone, which
\* changes again only by being cleared when the recording is stopped, reset or
\* started anew.
C34_FirstTickLatchesOrigin ==
  [][/\ (rig.isRecordingRef /\ rig.animationStartTimeRef = NULL /\ clock' # clock) =>
          /\ rig'.animationStartTimeRef = clock'
          /\ camera'.time = 0
          /\ Len(rig.keyframesRef) > 0
          /\ camera'.pose = PoseOf(rig.keyframesRef[1])
          /\ rig.startPosition => camera'.pose.position = Still(StartPoint)
     /\ (rig.animationStartTimeRef # NULL /\ clock' # clock) =>
          /\ rig'.animationStartTimeRef = rig.animationStartTimeRef
          /\ camera'.time = clock' - rig.animationStartTimeRef
     /\ (rig.animationStartTimeRef # NULL
         /\ rig'.animationStartTimeRef # rig.animationStartTimeRef) =>
          rig'.animationStartTimeRef = NULL]_vars
C34_Witness ==
  /\ rig.isRecordingRef
  /\ rig.startPosition
  /\ rig.animationStartTimeRef >= Sec(2)
  /\ clock > rig.animationStartTimeRef
  /\ camera.time = clock - rig.animationStartTimeRef

\* C35: on every tick of a rig that is not recording, the time handed to the
\* interpolator is a tenth of the clock modulo the default duration of 20 s,
\* and so lies in [0, 20 s).
C35_PreviewTimeWithinDefault ==
  [][(cameraRigRef /\ ~rig.isRecordingRef /\ clock' # clock) =>
       /\ camera'.time = (clock' \div 10) % Sec(RigDuration)
       /\ camera'.time >= 0 /\ camera'.time < Sec(RigDuration)]_vars

\* C35 as the code has it: on every tick of a rig that is not recording, the
\* time handed to the interpolator is a tenth of the clock modulo the rig's
\* dynamic duration, and so lies in [0, dynamic duration); the dynamic duration
\* is the default 20 s unless a recording of the rig's assets has set it and no
\* reset has followed.
C35_PreviewTimeWithinDynamic ==
  [][(cameraRigRef /\ ~rig.isRecordingRef /\ clock' # clock) =>
       /\ camera'.time = (clock' \div 10) % Sec(rig.dynamicDurationRef)
       /\ camera'.time >= 0 /\ camera'.time < Sec(rig.dynamicDurationRef)
       /\ \/ rig.dynamicDurationRef = RigDuration
          \/ /\ rig.keyframesRef # << >>
             /\ rig.dynamicDurationRef = DynamicDuration(rig.assetsPositions)]_vars
C35_Witness ==
  /\ cameraRigRef /\ ~rig.isRecordingRef
  /\ rig.dynamicDurationRef > RigDuration
  /\ camera.fresh
  /\ camera.time >= Sec(RigDuration)
  /\ camera.time = (clock \div 10) % Sec(rig.dynamicDurationRef)

\* C36: while a generation started with a connected rig records, the duration
\* handed to startRecording is the number of seconds the generate button
\* showed for the assets of the scene.
C36_ButtonShowsRecordedDuration ==
  \A r \in Runs :
    (run[r].pc = "capture" /\ cameraRigRef /\ rig.isRecordingRef
     /\ cap[run[r].call].promise = "pending") =>
      /\ run[r].dynamicDuration = GenerateButtonSeconds(assets)
      /\ cap[run[r].call].duration = Rat(GenerateButtonSeconds(assets), 1)

\* C37: while isRecording is true no step changes the assets of the scene.
C37_AssetsFixedWhileRecording ==
  [][isRecording => assets' = assets]_vars

====
